---- MODULE Spec2Model ----
(***************************************************************************)
(* State-machine model of the sevenzip-plugin COM bridge                   *)
(* (src/src/windows/handler.rs, src/src/windows/exports.rs).               *)
(*                                                                         *)
(* One PluginHandler object is followed from CreateObject to its           *)
(* deallocation.  The host is the environment: it calls the dispatch-table *)
(* entries through the interface pointers it holds and answers the         *)
(* callbacks the handlers make.  Every handler is one action; the calls a  *)
(* handler makes on host objects and on the wrapped format are recorded,   *)
(* in order, in `trace`, and its return values in `ret`.                   *)
(***************************************************************************)
EXTENDS Integers, Sequences, FiniteSets, TLC

\* ------------------------------------------------------------------------
\* Bounds of the model
\* ------------------------------------------------------------------------
MaxRefs == 3        \* references the host holds on the object at one time
MaxItems == 2       \* items in an archive
MaxSize == 2        \* largest declared item size / stream size
MaxLeaks == 1       \* handlers create_object may leave allocated
MaxThreads == 2     \* host threads of the concurrent specification
MaxReports == 2     \* progress reports the format makes during one write
MaxBstrs == 2       \* BSTR allocations that can exist at once

\* ------------------------------------------------------------------------
\* Program constants
\* ------------------------------------------------------------------------
\* u32::MAX: the "all items" / "no index" sentinel and the value a u32 wraps to
\* below zero.  The model checker's integers are 32-bit signed, so the largest
\* value it has stands for u32::MAX; no counter of the model comes near it.
U32_MAX == 2147483647
NULL == 0                         \* std::ptr::null_mut()
OutVtblOffset == 8                \* offset_of!(PluginHandler, out_vtbl), second pointer field
NASK_EXTRACT == 0
VT_EMPTY == 0
VT_UI8 == 21
VT_UI4 == 19
VT_BSTR == 8
VT_BOOL == 11
VT_FILETIME == 64
VT_OTHER == 2                     \* a tag the variant code does not know
VARIANT_TRUE == 65535             \* 0xFFFF
PropId_Size == 7                  \* PropId::Size
PropId_Other == 99                \* a property id the handler does not know
NRESULT_OK == 0
NRESULT_DATA_ERROR == 1

S_OK == "S_OK"
S_FALSE == "S_FALSE"
E_FAIL == "E_FAIL"                \* a failure status returned by the host
E_ABORT == "E_ABORT"              \* another failure status returned by the host
E_POINTER == "E_POINTER"
E_INVALIDARG == "E_INVALIDARG"
E_NOINTERFACE == "E_NOINTERFACE"
E_NOTIMPL == "E_NOTIMPL"
CLASS_E_CLASSNOTAVAILABLE == "CLASS_E_CLASSNOTAVAILABLE"
NO_HR == "-"                      \* the call returns no HRESULT (add_ref, release)

IID_IUNKNOWN == "IID_IUnknown"
IID_IINARCHIVE == "IID_IInArchive"
IID_IOUTARCHIVE == "IID_IOutArchive"
IID_ICRYPTOGETTEXTPASSWORD == "IID_ICryptoGetTextPassword"
IID_OTHER == "IID_Other"
IIDs == {IID_IUNKNOWN, IID_IINARCHIVE, IID_IOUTARCHIVE,
         IID_ICRYPTOGETTEXTPASSWORD, IID_OTHER}

FormatClsid == "CLSID_Format"     \* guid_from_bytes(&T::class_id())
CLSIDs == {FormatClsid, "CLSID_Other"}

Addrs == {64}                     \* addresses Box::new may return
Streams == {1, 2}                 \* host input streams (non-null handles)
Sizes == 1..MaxSize               \* declared item sizes, stream sizes
\* What a callback object answers to the query for the password capability:
\* no callback, E_NOINTERFACE, S_OK with a capability, S_OK with a null pointer
Callbacks == {"null", "plain", "crypto", "oknull"}
PtrKinds == {"in", "out"}         \* the two interface pointers of one object

VARIABLES
    supports_write,   \* T::supports_write() of the registered format
    obj,              \* "none" | "alive" | "freed": the allocation of the handler
    addr,             \* address of the allocation (Box::into_raw)
    ref_count,        \* PluginHandler::ref_count
    in_stream,        \* PluginHandler::in_stream (NULL or a stream)
    archive_size,     \* PluginHandler::archive_size
    is_open,          \* PluginHandler::is_open
    inner,            \* PluginHandler::inner: the format's item list (declared sizes)
    held,             \* references the host owns, per interface pointer
    stream_refs,      \* per stream: add_ref calls minus release calls made by the bridge
    leaked,           \* handlers allocated by create_object and never handed out or freed
    dealloc_count,    \* times the current allocation was dropped
    wild,             \* a thunk dereferenced an address that is not the handler
    pw_refs,          \* password capability references the bridge holds
    pc,               \* "idle", or the handler that is running (between two host callbacks)
    call,             \* locals of the running handler
    trace,            \* calls the last handler made on host objects / the format, in order
    ret,              \* what the last handler returned
    pv,               \* a RawPropVariant: its vt and data fields
    heap              \* the BSTR allocations (SysAllocString* / SysFreeString)

vars == <<supports_write, obj, addr, ref_count, in_stream, archive_size, is_open,
          inner, held, stream_refs, leaked, dealloc_count, wild, pw_refs, pc, call,
          trace, ret, pv, heap>>

handlerVars == <<ref_count, in_stream, archive_size, is_open, inner>>

\* ------------------------------------------------------------------------
\* Small helpers
\* ------------------------------------------------------------------------
Ev(name, arg) == <<name, arg>>

Ret(op, hr, val, ptr) ==
    [op |-> op, hr |-> hr, val |-> val, ptr |-> ptr, vt |-> VT_EMPTY, via |-> "-", arg |-> <<>>]

\* The same, with the interface pointer the call came through and its arguments
RetOf(op, hr, val, ptr, via, arg) ==
    [op |-> op, hr |-> hr, val |-> val, ptr |-> ptr, vt |-> VT_EMPTY, via |-> via, arg |-> arg]

\* A call that filled a property variant
RetProp(op, hr, vt, val) ==
    [op |-> op, hr |-> hr, val |-> val, ptr |-> NULL, vt |-> vt, via |-> "in", arg |-> <<>>]

NoCall == [op |-> "none"]

RECURSIVE CountEv(_, _)
CountEv(t, name) ==
    IF t = <<>> THEN 0
    ELSE (IF Head(t)[1] = name THEN 1 ELSE 0) + CountEv(Tail(t), name)

RECURSIVE SumSeq(_)
SumSeq(s) == IF s = <<>> THEN 0 ELSE Head(s) + SumSeq(Tail(s))

\* Position of the first event called `name` in t (0 when absent)
FirstEv(t, name) ==
    IF \E i \in 1..Len(t) : t[i][1] = name
    THEN CHOOSE i \in 1..Len(t) : t[i][1] = name /\ \A j \in 1..(i-1) : t[j][1] # name
    ELSE 0

\* ------------------------------------------------------------------------
\* Interface pointers (handler.rs 253-258, 937-944)
\* ------------------------------------------------------------------------
\* Address of the out_vtbl field of the handler at `base`
OutVtblField(base) == base + OutVtblOffset

\* The pointer value the host holds for an interface of the handler at `base`
PtrOf(base, kind) == IF kind = "in" THEN base ELSE OutVtblField(base)

out_vtbl_to_handler_nosub(out_vtbl_ptr) == out_vtbl_ptr

\* out_vtbl_to_handler: subtract the field offset
out_vtbl_to_handler(out_vtbl_ptr) == out_vtbl_ptr - OutVtblOffset

\* The `this` a dispatch-table entry acts on: in-table entries take the pointer as
\* it is, out-table thunks translate it first
ThisOf(ptr, kind) == IF kind = "in" THEN ptr ELSE out_vtbl_to_handler(ptr)

\* ------------------------------------------------------------------------
\* Object creation (handler.rs 1322-1333, exports.rs 141-217)
\* ------------------------------------------------------------------------
create_handler_zero == [ref_count |-> 0, in_stream |-> NULL, archive_size |-> 0,
                        is_open |-> FALSE, inner |-> <<>>]

\* RegisteredFormat::create_handler: the fields of a fresh handler
create_handler == [ref_count |-> 1, in_stream |-> NULL, archive_size |-> 0,
                   is_open |-> FALSE, inner |-> <<>>]

Install(f, a, kind) ==
    /\ obj' = "alive"
    /\ addr' = a
    /\ ref_count' = f.ref_count
    /\ in_stream' = f.in_stream
    /\ archive_size' = f.archive_size
    /\ is_open' = f.is_open
    /\ inner' = f.inner
    /\ held' = [k \in PtrKinds |-> IF k = kind THEN 1 ELSE 0]
    /\ dealloc_count' = 0
    /\ wild' = FALSE

create_object_iid_any(iid) ==
    IF iid \in {IID_IINARCHIVE, IID_IUNKNOWN} THEN "in"
    ELSE IF iid = IID_IOUTARCHIVE THEN "out"
    ELSE "none"

\* create_object: which interface pointer is handed out for iid ("none": unknown)
create_object_iid(iid) ==
    IF iid = IID_IINARCHIVE THEN "in"
    ELSE IF iid = IID_IOUTARCHIVE /\ supports_write THEN "out"
    ELSE "none"

\* create_object(clsid, iid, out_object, format); args_ok = no pointer argument is null
CreateObject(clsid, iid, args_ok) ==
    /\ obj # "alive"
    /\ trace' = <<>>
    /\ pc = "idle"
    /\ UNCHANGED <<supports_write, pv, heap, stream_refs, pw_refs, pc, call>>
    /\ IF ~args_ok
       THEN /\ ret' = RetOf("create_object", E_INVALIDARG, 0, NULL, "-", <<clsid, iid, args_ok>>)
            /\ UNCHANGED <<obj, addr, handlerVars, held, leaked, dealloc_count, wild>>
       ELSE IF clsid # FormatClsid
       THEN /\ ret' = RetOf("create_object", CLASS_E_CLASSNOTAVAILABLE, 0, NULL, "-",
                          <<clsid, iid, args_ok>>)
            /\ UNCHANGED <<obj, addr, handlerVars, held, leaked, dealloc_count, wild>>
       ELSE IF create_object_iid(iid) # "none"
       THEN \E a \in Addrs :
            /\ Install(create_handler, a, create_object_iid(iid))
            /\ ret' = RetOf("create_object", S_OK, 0, PtrOf(a, create_object_iid(iid)), "-",
                          <<clsid, iid, args_ok>>)
            /\ UNCHANGED leaked
       ELSE \* the handler was allocated before the interface check and is not freed
            /\ leaked < MaxLeaks
            /\ leaked' = leaked + 1
            /\ ret' = RetOf("create_object", CLASS_E_CLASSNOTAVAILABLE, 0, NULL, "-",
                          <<clsid, iid, args_ok>>)
            /\ UNCHANGED <<obj, addr, handlerVars, held, dealloc_count, wild>>

\* ------------------------------------------------------------------------
\* IUnknown (handler.rs 231-289, 946-969)
\* ------------------------------------------------------------------------
\* The host calls through an interface pointer it owns a reference on
HostHolds(kind) == pc = "idle" /\ obj = "alive" /\ held[kind] > 0

\* A thunk that resolved `this` to something else than the handler touches foreign memory
WildAccess(op, via) ==
    /\ wild' = TRUE
    /\ trace' = <<>>
    /\ ret' = RetOf(op, NO_HR, 0, NULL, via, <<>>)
    /\ UNCHANGED <<supports_write, pv, heap, obj, addr, handlerVars, held, stream_refs, leaked,
                   dealloc_count, pw_refs, pc, call>>

fetch_add_none(rc) == rc

\* AtomicU32::fetch_add(1): the value stored
fetch_add(rc) == IF rc = U32_MAX THEN 0 ELSE rc + 1

query_interface_kind_nowritecheck(riid) ==
    IF riid = IID_IUNKNOWN \/ riid = IID_IINARCHIVE THEN "in"
    ELSE IF riid = IID_IOUTARCHIVE THEN "out"
    ELSE "none"

\* query_interface: the interface pointer returned for riid ("none": E_NOINTERFACE)
query_interface_kind(riid) ==
    IF riid = IID_IUNKNOWN \/ riid = IID_IINARCHIVE THEN "in"
    ELSE IF riid = IID_IOUTARCHIVE /\ supports_write THEN "out"
    ELSE "none"

\* query_interface / out_query_interface through the pointer of kind `via`;
\* ppv_ok = ppv_object is not null
QueryInterface(via, riid, ppv_ok) ==
    /\ HostHolds(via)
    /\ LET this == ThisOf(PtrOf(addr, via), via)
           k == query_interface_kind(riid) IN
       IF this # addr THEN WildAccess("query_interface", via)
       ELSE
       /\ trace' = <<>>
       /\ UNCHANGED <<supports_write, pv, heap, obj, addr, in_stream, archive_size, is_open, inner,
                      stream_refs, leaked, dealloc_count, wild, pw_refs, pc, call>>
       /\ IF ~ppv_ok
          THEN /\ ret' = RetOf("query_interface", E_POINTER, ref_count, NULL, via, riid)
               /\ UNCHANGED <<ref_count, held>>
          ELSE IF k # "none"
          THEN /\ held[k] + 1 <= MaxRefs
               /\ held["in"] + held["out"] < MaxRefs
               /\ ref_count' = fetch_add(ref_count)
               /\ held' = [held EXCEPT ![k] = @ + 1]
               /\ ret' = RetOf("query_interface", S_OK, ref_count', PtrOf(this, k), via, riid)
          ELSE /\ ret' = RetOf("query_interface", E_NOINTERFACE, ref_count, NULL, via, riid)
               /\ UNCHANGED <<ref_count, held>>

\* add_ref / out_add_ref
AddRef(via) ==
    /\ HostHolds(via)
    /\ held["in"] + held["out"] < MaxRefs
    /\ LET this == ThisOf(PtrOf(addr, via), via) IN
       IF this # addr THEN WildAccess("add_ref", via)
       ELSE
       /\ ref_count' = fetch_add(ref_count)
       /\ held' = [held EXCEPT ![via] = @ + 1]
       /\ trace' = <<>>
       /\ ret' = RetOf("add_ref", NO_HR, ref_count', NULL, via, <<>>)
       /\ UNCHANGED <<supports_write, pv, heap, obj, addr, in_stream, archive_size, is_open, inner,
                      stream_refs, leaked, dealloc_count, wild, pw_refs, pc, call>>

fetch_sub_pre(rc) == rc

\* release: fetch_sub(1) - 1, the post-decrement value
fetch_sub(rc) == IF rc = 0 THEN U32_MAX ELSE rc - 1

release_destroys_at_one(count) == count <= 1

\* release: the test that starts destruction
release_destroys(count) == count = 0

release_events_noclose(s) ==
    (IF s # NULL THEN <<Ev("stream_release", s)>> ELSE <<>>) \o <<Ev("dealloc", 0)>>

\* release: what the destroying release does, in order
release_events(s) ==
    (IF s # NULL THEN <<Ev("stream_release", s)>> ELSE <<>>)
        \o <<Ev("inner_close", 0), Ev("dealloc", 0)>>

\* Net effect on the bridge's stream references of the calls in t
RECURSIVE ApplyStreamEvents(_, _)
ApplyStreamEvents(refs, t) ==
    IF t = <<>> THEN refs
    ELSE LET e == Head(t) IN
         ApplyStreamEvents(
            IF e[1] = "stream_add_ref" THEN [refs EXCEPT ![e[2]] = @ + 1]
            ELSE IF e[1] = "stream_release" THEN [refs EXCEPT ![e[2]] = @ - 1]
            ELSE refs,
            Tail(t))

\* release / out_release
Release(via) ==
    /\ HostHolds(via)
    /\ LET this == ThisOf(PtrOf(addr, via), via)
           count == fetch_sub(ref_count) IN
       IF this # addr THEN WildAccess("release", via)
       ELSE
       /\ ref_count' = count
       /\ held' = [held EXCEPT ![via] = @ - 1]
       /\ ret' = RetOf("release", NO_HR, count, NULL, via, <<>>)
       /\ UNCHANGED <<supports_write, pv, heap, addr, archive_size, is_open, inner, leaked, wild,
                      pw_refs, pc, call>>
       /\ IF release_destroys(count)
          THEN /\ trace' = release_events(in_stream)
               /\ stream_refs' = ApplyStreamEvents(stream_refs, trace')
               /\ in_stream' = NULL
               /\ obj' = "freed"
               /\ dealloc_count' = dealloc_count + CountEv(trace', "dealloc")
          ELSE /\ trace' = <<>>
               /\ UNCHANGED <<stream_refs, in_stream, obj, dealloc_count>>

\* ------------------------------------------------------------------------
\* The wrapped format (traits.rs)
\* ------------------------------------------------------------------------
\* Archives a stream may hold: the declared sizes of its items
RECURSIVE SeqsUpTo(_, _)
SeqsUpTo(S, n) ==
    IF n = 0 THEN {<<>>}
    ELSE LET shorter == SeqsUpTo(S, n - 1) IN
         shorter \cup {Append(q, x) : q \in {r \in shorter : Len(r) = n - 1}, x \in S}

Archives == SeqsUpTo(Sizes, MaxItems)

inner_close_clears(items) == <<>>

\* ArchiveReader::close, the default body: nothing is released or reset
inner_close(items) == items

\* ArchiveReader::item_count
item_count(items) == Len(items)

\* ArchiveReader::get_item(index): index is 0-based; TRUE when Some
has_item(items, index) == index >= 0 /\ index < Len(items)

\* the declared size of get_item(index)
item_size(items, index) == items[index + 1]

\* ------------------------------------------------------------------------
\* Input adapter construction (handler.rs 96-129)
\* ------------------------------------------------------------------------
InStreamReader_new_noseekback(stream, seek_end_ok, seek_set_ok, end_pos) ==
    IF stream = NULL THEN [ok |-> FALSE, size |-> 0, events |-> <<>>]
    ELSE IF ~seek_end_ok
    THEN [ok |-> FALSE, size |-> 0, events |-> <<Ev("seek_end", stream)>>]
    ELSE [ok |-> TRUE, size |-> end_pos, events |-> <<Ev("seek_end", stream)>>]

\* InStreamReader::new: seek to the end for the size, then back to the start
InStreamReader_new(stream, seek_end_ok, seek_set_ok, end_pos) ==
    IF stream = NULL THEN [ok |-> FALSE, size |-> 0, events |-> <<>>]
    ELSE IF ~seek_end_ok
    THEN [ok |-> FALSE, size |-> 0, events |-> <<Ev("seek_end", stream)>>]
    ELSE IF ~seek_set_ok
    THEN [ok |-> FALSE, size |-> 0,
          events |-> <<Ev("seek_end", stream), Ev("seek_set", stream)>>]
    ELSE [ok |-> TRUE, size |-> end_pos,
          events |-> <<Ev("seek_end", stream), Ev("seek_set", stream)>>]

\* ------------------------------------------------------------------------
\* Password capability wrappers (handler.rs 302-326, 356-364, 373-397, 432-440)
\* ------------------------------------------------------------------------
\* try_from_callback: TRUE when a wrapper (holding one capability reference) is made
try_from_callback(cb) == cb = "crypto"

\* the calls try_from_callback makes on the callback object
try_from_callback_events(cb) ==
    IF cb = "null" THEN <<>> ELSE <<Ev("cb_query_interface", 0)>>

password_drop_events_none(has) == <<>>

\* Drop of Option<wrapper>: the capability reference is released
password_drop_events(has) == IF has THEN <<Ev("pw_release", 0)>> ELSE <<>>

\* ------------------------------------------------------------------------
\* IInArchive: open, close, get_property (handler.rs 442-617)
\* ------------------------------------------------------------------------
detach_events_none(s) == <<>>

\* "if !handler.in_stream.is_null() { release(); in_stream = null }"
\* (open 457-460, close 512-515, update_items 1005-1008)
detach_events(s) == IF s # NULL THEN <<Ev("stream_release", s)>> ELSE <<>>

attach_events_none(s) == <<>>

\* open 497: AddRef the stream that is kept
attach_events(s) == <<Ev("stream_add_ref", s)>>

\* open(stream, _, open_callback).  The host's answers: whether each seek
\* succeeds, the end position, the callback's kind, the format's verdict and the
\* items it parsed.
Open(stream, cb, seek_end_ok, seek_set_ok, end_pos, open_ok, items) ==
    /\ HostHolds("in")
    /\ UNCHANGED <<supports_write, pv, heap, obj, addr, ref_count, held, leaked, dealloc_count,
                   wild, pw_refs, pc, call>>
    /\ IF stream = NULL
       THEN /\ ret' = RetOf("open", E_POINTER, 0, NULL, "in", <<stream, cb>>)
            /\ trace' = <<>>
            /\ UNCHANGED <<in_stream, archive_size, is_open, inner, stream_refs>>
       ELSE LET rel == detach_events(in_stream)
                reader == InStreamReader_new(stream, seek_end_ok, seek_set_ok, end_pos)
                has_pw == try_from_callback(cb)
                pw == try_from_callback_events(cb)
                drop == password_drop_events(has_pw)
            IN
            IF ~reader.ok
            THEN /\ trace' = rel \o reader.events
                 /\ ret' = RetOf("open", S_FALSE, 0, NULL, "in", <<stream, cb>>)
                 /\ in_stream' = NULL
                 /\ stream_refs' = ApplyStreamEvents(stream_refs, trace')
                 /\ UNCHANGED <<archive_size, is_open, inner>>
            ELSE IF ~open_ok
            THEN /\ trace' = rel \o reader.events \o pw
                              \o <<Ev("inner_open", reader.size)>> \o drop
                 /\ ret' = RetOf("open", S_FALSE, 0, NULL, "in", <<stream, cb>>)
                 /\ in_stream' = NULL
                 /\ stream_refs' = ApplyStreamEvents(stream_refs, trace')
                 /\ UNCHANGED <<archive_size, is_open, inner>>
            ELSE /\ trace' = rel \o reader.events \o pw
                              \o <<Ev("inner_open", reader.size)>>
                              \o attach_events(stream) \o drop
                 /\ ret' = RetOf("open", S_OK, 0, NULL, "in", <<stream, cb>>)
                 /\ in_stream' = stream
                 /\ archive_size' = reader.size
                 /\ is_open' = TRUE
                 /\ inner' = items
                 /\ stream_refs' = ApplyStreamEvents(stream_refs, trace')

\* close
Close ==
    /\ HostHolds("in")
    /\ trace' = <<Ev("inner_close", 0)>> \o detach_events(in_stream)
    /\ inner' = inner_close(inner)
    /\ stream_refs' = ApplyStreamEvents(stream_refs, trace')
    /\ in_stream' = NULL
    /\ is_open' = FALSE
    /\ archive_size' = 0
    /\ ret' = RetOf("close", S_OK, 0, NULL, "in", <<>>)
    /\ UNCHANGED <<supports_write, pv, heap, obj, addr, ref_count, held, leaked, dealloc_count,
                   wild, pw_refs, pc, call>>

get_property_checked(index, prop_id, value_ok) ==
    IF ~value_ok THEN RetProp("get_property", E_INVALIDARG, VT_EMPTY, 0)
    ELSE IF ~is_open \/ ~has_item(inner, index)
    THEN RetProp("get_property", E_INVALIDARG, VT_EMPTY, 0)
    ELSE IF prop_id = PropId_Size
    THEN RetProp("get_property", S_OK, VT_UI8, item_size(inner, index))
    ELSE RetProp("get_property", S_OK, VT_EMPTY, 0)

\* get_property(index, prop_id, value): the status and the variant written
get_property(index, prop_id, value_ok) ==
    IF ~value_ok THEN RetProp("get_property", E_INVALIDARG, VT_EMPTY, 0)
    ELSE IF ~has_item(inner, index)
    THEN RetProp("get_property", E_INVALIDARG, VT_EMPTY, 0)
    ELSE IF prop_id = PropId_Size
    THEN RetProp("get_property", S_OK, VT_UI8, item_size(inner, index))
    ELSE RetProp("get_property", S_OK, VT_EMPTY, 0)

GetProperty(index, prop_id, value_ok) ==
    /\ HostHolds("in")
    /\ ret' = [get_property(index, prop_id, value_ok) EXCEPT !.arg = <<index, prop_id>>]
    /\ trace' = <<>>
    /\ UNCHANGED <<supports_write, pv, heap, obj, addr, handlerVars, held, stream_refs, leaked,
                   dealloc_count, wild, pw_refs, pc, call>>

ArchivePropId_PhySize == 4        \* ArchivePropId::PhySize

get_archive_property_zero(prop_id, value_ok, physical_size) ==
    IF ~value_ok THEN RetProp("get_archive_property", E_INVALIDARG, VT_EMPTY, 0)
    ELSE IF prop_id = ArchivePropId_PhySize
    THEN RetProp("get_archive_property", S_OK, VT_UI8,
                 IF physical_size.some THEN physical_size.value ELSE 0)
    ELSE RetProp("get_archive_property", S_OK, VT_EMPTY, 0)

\* get_archive_property(prop_id, value) (784-812): the status and the variant
\* written; physical_size is the answer of the format's physical_size()
get_archive_property(prop_id, value_ok, physical_size) ==
    IF ~value_ok THEN RetProp("get_archive_property", E_INVALIDARG, VT_EMPTY, 0)
    ELSE IF prop_id = ArchivePropId_PhySize
    THEN RetProp("get_archive_property", S_OK, VT_UI8,
                 IF physical_size.some THEN physical_size.value ELSE archive_size)
    ELSE RetProp("get_archive_property", S_OK, VT_EMPTY, 0)

GetArchiveProperty(prop_id, value_ok, physical_size) ==
    /\ HostHolds("in")
    /\ ret' = [get_archive_property(prop_id, value_ok, physical_size)
                 EXCEPT !.arg = <<prop_id, physical_size.some>>]
    /\ trace' = <<>>
    /\ UNCHANGED <<supports_write, pv, heap, obj, addr, handlerVars, held, stream_refs, leaked,
                   dealloc_count, wild, pw_refs, pc, call>>

\* ------------------------------------------------------------------------
\* IInArchive: extract (handler.rs 683-782)
\* ------------------------------------------------------------------------
\* The handler calls back into the host once per item, so it is modelled in
\* steps: ExtractBegin runs up to the loop, ExtractItem is one iteration of the
\* loop (or the return that ends it early), ExtractReturn is the final return.
\* No other call on the object starts while pc # "idle".
ALL_ITEMS == U32_MAX

RECURSIVE Range0(_)
\* (0..n).collect()
Range0(n) == IF n <= 0 THEN <<>> ELSE Append(Range0(n - 1), n - 1)

indices_to_extract_count(items, indices, num_items) ==
    IF num_items = ALL_ITEMS THEN Range0(item_count(items) - 1) ELSE indices

\* extract 705-713: the explicit list, or every index when num_items is u32::MAX
indices_to_extract(items, indices, num_items) ==
    IF num_items = ALL_ITEMS THEN Range0(item_count(items)) ELSE indices

RECURSIVE extract_total_size(_, _)
\* extract 716-720: the sum of the declared sizes of the indices that exist
extract_total_size(items, idx) ==
    IF idx = <<>> THEN 0
    ELSE (IF has_item(items, Head(idx)) THEN item_size(items, Head(idx)) ELSE 0)
            + extract_total_size(items, Tail(idx))

is_err_never(hr) == FALSE

\* HRESULT::is_err: the failure statuses (S_FALSE is a success status)
is_err(hr) == hr \in {E_FAIL, E_ABORT, E_POINTER, E_INVALIDARG, E_NOINTERFACE, E_NOTIMPL,
                      CLASS_E_CLASSNOTAVAILABLE}

\* the statuses a host callback returns in these specifications
HostStatuses == {S_OK, E_FAIL, E_ABORT}

dropped_status_aborts_on_error(hr) == is_err(hr)

\* `let _ = callback.set_total(..)`, `let _ = callback.prepare_operation(..)`,
\* `let _ = callback.set_completed(..)` (722, 741, 777): the status is dropped,
\* it never ends extract
dropped_status_aborts(hr) == FALSE

\* extract(indices, num_items, test_mode, extract_callback) up to the loop;
\* total_hr is the status the host's set_total answers
ExtractStart(indices, num_items, test_mode, cb, total_hr) ==
    /\ HostHolds("in")
    /\ UNCHANGED <<supports_write, pv, heap, obj, addr, handlerVars, held, stream_refs, leaked,
                   dealloc_count, wild>>
    /\ IF cb = "null"
       THEN /\ ret' = RetOf("extract", E_INVALIDARG, 0, NULL, "in",
                          <<indices, num_items, test_mode, cb>>)
            /\ trace' = <<>>
            /\ call' = NoCall
            /\ UNCHANGED <<pw_refs, pc>>
       ELSE LET idx == indices_to_extract(inner, indices, num_items)
                total == extract_total_size(inner, idx)
                started == [op |-> "extract", idx |-> idx, pos |-> 1, completed |-> 0,
                            total |-> total, test_mode |-> test_mode,
                            has_pw |-> try_from_callback(cb), n |-> Len(idx),
                            all |-> (num_items = ALL_ITEMS), answers |-> <<>>,
                            total_hr |-> total_hr] IN
            IF dropped_status_aborts(total_hr)
            THEN /\ call' = [started EXCEPT !.op = "extract_done"]
                 /\ trace' = try_from_callback_events(cb) \o <<Ev("set_total", total)>>
                               \o password_drop_events(try_from_callback(cb))
                 /\ ret' = RetOf("extract", total_hr, 0, NULL, "in",
                               <<indices, num_items, test_mode, cb>>)
                 /\ UNCHANGED <<pw_refs, pc>>
            ELSE /\ pc' = "extract"
                 /\ pw_refs' = pw_refs + (IF try_from_callback(cb) THEN 1 ELSE 0)
                 /\ call' = started
                 /\ trace' = try_from_callback_events(cb) \o <<Ev("set_total", total)>>
                 /\ ret' = RetOf("extract", "running", 0, NULL, "in",
                               <<indices, num_items, test_mode, cb>>)

\* the same with a host that accepts set_total
ExtractBegin(indices, num_items, test_mode, cb) ==
    ExtractStart(indices, num_items, test_mode, cb, S_OK)

\* Leaving extract: the password wrapper is dropped, the status is returned
ExtractLeave(hr, events) ==
    /\ trace' = trace \o events \o password_drop_events(call.has_pw)
    /\ pw_refs' = pw_refs - CountEv(password_drop_events(call.has_pw), "pw_release")
    /\ ret' = [ret EXCEPT !.hr = hr, !.val = call.completed]
    /\ pc' = "idle"

extract_result_always_ok(test_mode, out_stream, extract_ok) == NRESULT_OK

\* extract 744-762: the per-item result
extract_result(test_mode, out_stream, extract_ok) ==
    IF test_mode # 0 \/ out_stream = NULL THEN NRESULT_OK
    ELSE IF extract_ok THEN NRESULT_OK ELSE NRESULT_DATA_ERROR

extract_runs_always(test_mode, out_stream) == TRUE

\* extract 744-756: whether the format's extraction runs for the item
extract_runs(test_mode, out_stream) == ~(test_mode # 0 \/ out_stream = NULL)

extract_completed_same(completed, size) == completed

\* extract 776: completed += item_size
extract_completed(completed, size) == completed + size

extract_item_events_release_last(index, test_mode, out_stream, extract_ok) ==
    <<Ev("prepare_operation", NASK_EXTRACT)>>
    \o (IF extract_runs(test_mode, out_stream) THEN <<Ev("inner_extract", index)>> ELSE <<>>)
    \o <<Ev("set_operation_result", extract_result(test_mode, out_stream, extract_ok))>>
    \o (IF out_stream # NULL THEN <<Ev("out_release", index)>> ELSE <<>>)

\* the calls of one iteration after get_stream succeeded (741-777)
extract_item_events(index, test_mode, out_stream, extract_ok) ==
    <<Ev("prepare_operation", NASK_EXTRACT)>>
    \o (IF extract_runs(test_mode, out_stream) THEN <<Ev("inner_extract", index)>> ELSE <<>>)
    \o (IF out_stream # NULL THEN <<Ev("out_release", index)>> ELSE <<>>)
    \o <<Ev("set_operation_result", extract_result(test_mode, out_stream, extract_ok))>>

\* One iteration of the loop at 726-778.  The host's answers: the status of
\* get_stream and the stream it supplies (NULL: none), whether the format's
\* extraction succeeds, the statuses of prepare_operation, set_operation_result
\* and set_completed.  call.answers keeps them, one record per iteration that
\* reached get_stream.
ExtractStep(gs_hr, out_stream, extract_ok, prep_hr, res_hr, comp_hr) ==
    /\ pc = "extract"
    /\ call.pos <= Len(call.idx)
    /\ UNCHANGED <<supports_write, pv, heap, obj, addr, handlerVars, held, stream_refs, leaked,
                   dealloc_count, wild>>
    /\ LET index == call.idx[call.pos]
           answer == [index |-> index, gs_hr |-> gs_hr, out_stream |-> out_stream,
                      extract_ok |-> extract_ok, res_hr |-> res_hr,
                      prep_hr |-> prep_hr, comp_hr |-> comp_hr]
           item == <<Ev("get_stream", index)>>
                   \o extract_item_events(index, call.test_mode, out_stream, extract_ok)
           completed == extract_completed(call.completed, item_size(inner, index)) IN
       IF ~has_item(inner, index)
       THEN \* None => continue
            /\ call' = [call EXCEPT !.pos = @ + 1]
            /\ UNCHANGED <<trace, ret, pc, pw_refs>>
       ELSE IF is_err(gs_hr)
       THEN /\ ExtractLeave(gs_hr, <<Ev("get_stream", index)>>)
            /\ call' = [call EXCEPT !.op = "extract_done", !.answers = Append(@, answer)]
       ELSE IF dropped_status_aborts(prep_hr)
       THEN /\ ExtractLeave(prep_hr, <<Ev("get_stream", index),
                                       Ev("prepare_operation", NASK_EXTRACT)>>)
            /\ call' = [call EXCEPT !.op = "extract_done", !.answers = Append(@, answer)]
       ELSE IF is_err(res_hr)
       THEN /\ ExtractLeave(res_hr, item)
            /\ call' = [call EXCEPT !.op = "extract_done", !.answers = Append(@, answer)]
       ELSE IF dropped_status_aborts(comp_hr)
       THEN /\ ExtractLeave(comp_hr, item \o <<Ev("set_completed", completed)>>)
            /\ call' = [call EXCEPT !.op = "extract_done", !.completed = completed,
                                    !.answers = Append(@, answer)]
       ELSE /\ trace' = trace \o item \o <<Ev("set_completed", completed)>>
            /\ call' = [call EXCEPT !.pos = @ + 1,
                           !.completed = completed,
                           !.answers = Append(@, answer)]
            /\ UNCHANGED <<ret, pc, pw_refs>>

\* the same with a host that accepts prepare_operation and set_completed
ExtractItem(gs_hr, out_stream, extract_ok, res_hr) ==
    ExtractStep(gs_hr, out_stream, extract_ok, S_OK, res_hr, S_OK)

\* extract 780: all indices processed
ExtractReturn ==
    /\ pc = "extract"
    /\ call.pos > Len(call.idx)
    /\ ExtractLeave(S_OK, <<>>)
    /\ call' = [call EXCEPT !.op = "extract_done"]
    /\ UNCHANGED <<supports_write, pv, heap, obj, addr, handlerVars, held, stream_refs, leaked,
                   dealloc_count, wild>>

\* ------------------------------------------------------------------------
\* IOutArchive: update_items (handler.rs 48-76, 984-1228)
\* ------------------------------------------------------------------------
\* Modelled in steps like extract: UpdateItemsBegin checks the arguments,
\* UpdatePass1 and UpdatePass2 are one iteration of the sizing and of the
\* collection loop, UpdateSetTotal is the report between them, UpdateWrite is the
\* write phase.  Whichever step ends update_items_inner also runs the cleanup of
\* update_items and returns (UpdateLeave).

\* One slot of the host's update list: what get_update_item_info and
\* get_property answer for it
Slot(new_data, index_in_archive, size_vt, size, is_dir) ==
    [new_data |-> new_data, index_in_archive |-> index_in_archive,
     size_vt |-> size_vt, size |-> size, is_dir |-> is_dir]

NewFile(size) == Slot(TRUE, U32_MAX, VT_UI8, size, FALSE)
NewFileNoSize == Slot(TRUE, U32_MAX, VT_EMPTY, 0, FALSE)
NewDir == Slot(TRUE, U32_MAX, VT_UI8, 0, TRUE)
CopyOf(index) == Slot(FALSE, index, VT_EMPTY, 0, FALSE)
Deletion == Slot(FALSE, U32_MAX, VT_EMPTY, 0, FALSE)

\* size_prop.get_u64().unwrap_or(0) (1054): the value of an unsigned variant, else 0
size_prop_value(vt, data) == IF vt = VT_UI8 \/ vt = VT_UI4 THEN data ELSE 0

slot_size_new_only(items, sl) ==
    IF sl.new_data THEN size_prop_value(sl.size_vt, sl.size) ELSE 0

\* 1046-1061: what a slot adds to the total
slot_size(items, sl) ==
    IF sl.new_data THEN size_prop_value(sl.size_vt, sl.size)
    ELSE IF sl.index_in_archive # U32_MAX
    THEN (IF has_item(items, sl.index_in_archive)
          THEN item_size(items, sl.index_in_archive) ELSE 0)
    ELSE 0

RECURSIVE Concat(_)
Concat(chunks) == IF chunks = <<>> THEN <<>> ELSE Head(chunks) \o Concat(Tail(chunks))

read_sequential_stream_first_chunk(chunks, fault) ==
    [ok |-> ~fault,
     data |-> IF fault \/ chunks = <<>> THEN <<>> ELSE Head(chunks),
     events |-> [k \in 1..(Len(chunks) + 1) |->
                    Ev("in_read", IF k <= Len(chunks) THEN Len(chunks[k]) ELSE 0)]]

\* read_sequential_stream: the host stream returns the chunks one read at a
\* time, then either a zero-length read or (fault) a failure status
read_sequential_stream(chunks, fault) ==
    [ok |-> ~fault,
     data |-> IF fault THEN <<>> ELSE Concat(chunks),
     events |-> [k \in 1..(Len(chunks) + 1) |->
                    Ev("in_read", IF k <= Len(chunks) THEN Len(chunks[k]) ELSE 0)]]

AddNew(slot, data) == [kind |-> "AddNew", ref |-> slot, data |-> data]
CopyExisting_next_index(index) == [kind |-> "CopyExisting", ref |-> index + 1, data |-> <<>>]

\* UpdateItem::CopyExisting { index, new_name: None }
CopyExisting(index) == [kind |-> "CopyExisting", ref |-> index, data |-> <<>>]

update_cleanup_events_nostream(s) == <<Ev("inner_close", 0)>>

\* update_items 1001-1008: close the format, then release the held stream
update_cleanup_events(s) == <<Ev("inner_close", 0)>> \o detach_events(s)

update_items_args_ok_stream_only(out_stream, update_callback) == out_stream # NULL

\* update_items 993: both pointers are non-null
update_items_args_ok(out_stream, update_callback) ==
    ~(out_stream = NULL \/ update_callback = "null")

\* update_items(out_stream, num_items, update_callback): the argument check
UpdateItemsBegin(out_stream, cb, slots) ==
    /\ HostHolds("out")
    /\ supports_write
    /\ UNCHANGED <<supports_write, pv, heap, obj, addr, handlerVars, held, stream_refs, leaked,
                   dealloc_count, pw_refs>>
    /\ LET this == ThisOf(PtrOf(addr, "out"), "out") IN
       IF this # addr
       THEN /\ wild' = TRUE
            /\ trace' = <<>>
            /\ ret' = RetOf("update_items", NO_HR, 0, NULL, "out", <<out_stream, cb, slots>>)
            /\ UNCHANGED <<pc, call>>
       ELSE IF ~update_items_args_ok(out_stream, cb)
       THEN /\ ret' = RetOf("update_items", E_INVALIDARG, 0, NULL, "out",
                          <<out_stream, cb, slots>>)
            /\ trace' = <<>>
            /\ UNCHANGED <<pc, call, wild>>
       ELSE /\ pc' = "update_pass1"
            /\ call' = [op |-> "update_items", slots |-> slots, i |-> 1, total |-> 0,
                        updates |-> <<>>, cb |-> cb, was_open |-> is_open,
                        had_stream |-> in_stream, reported |-> <<>>,
                        answers |-> <<>>, write |-> "none"]
            /\ trace' = <<>>
            /\ ret' = RetOf("update_items", "running", 0, NULL, "out",
                          <<out_stream, cb, slots>>)
            /\ UNCHANGED wild

\* update_items_inner returned hr after making `events`; update_items cleans up
UpdateLeave(hr, events) ==
    /\ trace' = trace \o events \o update_cleanup_events(in_stream)
    /\ inner' = inner_close(inner)
    /\ is_open' = FALSE
    /\ stream_refs' = ApplyStreamEvents(stream_refs, update_cleanup_events(in_stream))
    /\ in_stream' = IF CountEv(update_cleanup_events(in_stream), "stream_release") > 0
                    THEN NULL ELSE in_stream
    /\ ret' = [ret EXCEPT !.hr = hr, !.val = call.total]
    /\ pc' = "idle"
    /\ UNCHANGED <<supports_write, pv, heap, obj, addr, ref_count, archive_size, held, leaked,
                   dealloc_count, wild>>

UpdateStay ==
    UNCHANGED <<supports_write, pv, heap, obj, addr, handlerVars, held, stream_refs, leaked,
                dealloc_count, wild, pw_refs, ret>>

\* First pass (1031-1062), one slot
UpdatePass1(info_ok) ==
    /\ pc = "update_pass1"
    /\ call.i <= Len(call.slots)
    /\ LET sl == call.slots[call.i]
           info == <<Ev("get_update_item_info", call.i - 1)>> IN
       IF ~info_ok
       THEN /\ UpdateLeave(E_FAIL, info)
            /\ call' = [call EXCEPT !.op = "update_items_done"]
            /\ UNCHANGED pw_refs
       ELSE /\ trace' = trace \o info
                \o (IF sl.new_data THEN <<Ev("get_property_size", call.i - 1)>> ELSE <<>>)
            /\ call' = [call EXCEPT !.i = @ + 1, !.total = @ + slot_size(inner, sl)]
            /\ UNCHANGED pc
            /\ UpdateStay

\* 1065: the total is reported, the second pass starts
UpdateSetTotal ==
    /\ pc = "update_pass1"
    /\ call.i > Len(call.slots)
    /\ trace' = trace \o <<Ev("set_total", call.total)>>
    /\ pc' = "update_pass2"
    /\ call' = [call EXCEPT !.i = 1]
    /\ UpdateStay

\* Second pass (1068-1150), one slot.  The host's answers: the statuses of
\* get_update_item_info, get_property(Path) and get_stream, whether get_stream
\* supplies a stream, and what reading that stream yields.
UpdatePass2(info_ok, path_ok, gs_ok, given, chunks, fault) ==
    /\ pc = "update_pass2"
    /\ call.i <= Len(call.slots)
    /\ LET sl == call.slots[call.i]
           k == call.i - 1
           info == <<Ev("get_update_item_info", k)>>
           rd == read_sequential_stream(chunks, fault)
           ok_result == <<Ev("set_operation_result", NRESULT_OK)>> IN
       IF ~info_ok
       THEN /\ UpdateLeave(E_FAIL, info)
            /\ call' = [call EXCEPT !.op = "update_items_done"]
            /\ UNCHANGED pw_refs
       ELSE IF sl.new_data /\ sl.is_dir
       THEN /\ trace' = trace \o info \o <<Ev("get_property_isdir", k)>> \o ok_result
            /\ call' = [call EXCEPT !.i = @ + 1]
            /\ UNCHANGED pc
            /\ UpdateStay
       ELSE IF sl.new_data /\ ~path_ok
       THEN /\ UpdateLeave(E_FAIL, info \o <<Ev("get_property_isdir", k),
                                                Ev("get_property_path", k)>>)
            /\ call' = [call EXCEPT !.op = "update_items_done"]
            /\ UNCHANGED pw_refs
       ELSE IF sl.new_data /\ ~gs_ok
       THEN /\ UpdateLeave(E_FAIL, info \o <<Ev("get_property_isdir", k),
                                                Ev("get_property_path", k),
                                                Ev("get_stream", k)>>)
            /\ call' = [call EXCEPT !.op = "update_items_done"]
            /\ UNCHANGED pw_refs
       ELSE IF sl.new_data
       THEN /\ trace' = trace \o info
                \o <<Ev("get_property_isdir", k), Ev("get_property_path", k),
                     Ev("get_stream", k)>>
                \o (IF given THEN rd.events \o <<Ev("in_release", k)>> ELSE <<>>)
                \o ok_result
            /\ call' = [call EXCEPT !.i = @ + 1,
                           !.updates = Append(@, AddNew(k, IF given THEN rd.data ELSE <<>>)),
                           !.answers = Append(@, [slot |-> k, given |-> given,
                                                  chunks |-> chunks, fault |-> fault])]
            /\ UNCHANGED pc
            /\ UpdateStay
       ELSE IF sl.index_in_archive # U32_MAX
       THEN /\ trace' = trace \o info \o ok_result
            /\ call' = [call EXCEPT !.i = @ + 1,
                           !.updates = Append(@, CopyExisting(sl.index_in_archive))]
            /\ UNCHANGED pc
            /\ UpdateStay
       ELSE /\ trace' = trace \o info
            /\ call' = [call EXCEPT !.i = @ + 1]
            /\ UNCHANGED pc
            /\ UpdateStay

\* Unsigned integers of the program's widths (u32, u64, u128) and the f64
\* values computed from them.  An unsigned integer is the sequence of its
\* binary digits, least significant first, without high zero digits (0 is << >>);
\* the operators below are the arithmetic the source applies to such values.
Min(a, b) == IF a <= b THEN a ELSE b

\* binary digits of an f64 significand (f64::MANTISSA_DIGITS)
F64_MANTISSA_DIGITS == 53

\* binary digits of a u64 and of a u32
U64_BITS == 64

U32_BITS == 32

\* the value without its high zero bits
Trim(b) ==
    LET top == CHOOSE k \in 0..Len(b) :
                   (k = 0 \/ b[k] = 1) /\ \A j \in (k + 1)..Len(b) : b[j] = 0 IN
    SubSeq(b, 1, top)

RECURSIVE BitsOf(_)
BitsOf(n) == IF n = 0 THEN <<>> ELSE <<n % 2>> \o BitsOf(n \div 2)

RECURSIVE NatOf(_)
NatOf(b) == IF b = <<>> THEN 0 ELSE b[1] + 2 * NatOf(Tail(b))

BitAt(b, i) == IF i <= Len(b) THEN b[i] ELSE 0

Pow2(k) == [i \in 1..(k + 1) |-> IF i = k + 1 THEN 1 ELSE 0]

Ones(k) == [i \in 1..k |-> 1]

ShiftLeft(b, k) == IF b = <<>> THEN <<>> ELSE [i \in 1..k |-> 0] \o b

ShiftRight(b, k) == IF k >= Len(b) THEN <<>> ELSE SubSeq(b, k + 1, Len(b))

LowBits(b, k) == Trim(SubSeq(b, 1, Min(k, Len(b))))

Less(a, b) ==
    IF Len(a) # Len(b) THEN Len(a) < Len(b)
    ELSE \E i \in 1..Len(a) :
             a[i] < b[i] /\ \A j \in (i + 1)..Len(a) : a[j] = b[j]

Leq(a, b) == ~Less(b, a)

\* bits lo..hi of a + b + carry, and the carry out of bit hi
RECURSIVE AddRange(_, _, _, _, _)
AddRange(a, b, lo, hi, carry) ==
    IF lo = hi
    THEN LET s == BitAt(a, lo) + BitAt(b, lo) + carry IN
         [bits |-> <<s % 2>>, carry |-> s \div 2]
    ELSE LET mid == (lo + hi) \div 2
             low == AddRange(a, b, lo, mid, carry)
             high == AddRange(a, b, mid + 1, hi, low.carry) IN
         [bits |-> low.bits \o high.bits, carry |-> high.carry]

Add(a, b) ==
    LET n == IF Len(a) >= Len(b) THEN Len(a) ELSE Len(b)
        s == AddRange(a, b, 1, n, 0) IN
    IF n = 0 THEN <<>> ELSE IF s.carry = 1 THEN Append(s.bits, 1) ELSE s.bits

\* bits lo..hi of a - b - borrow, and the borrow out of bit hi
RECURSIVE SubRange(_, _, _, _, _)
SubRange(a, b, lo, hi, borrow) ==
    IF lo = hi
    THEN LET d == a[lo] - BitAt(b, lo) - borrow IN
         [bits |-> <<d % 2>>, borrow |-> IF d < 0 THEN 1 ELSE 0]
    ELSE LET mid == (lo + hi) \div 2
             low == SubRange(a, b, lo, mid, borrow)
             high == SubRange(a, b, mid + 1, hi, low.borrow) IN
         [bits |-> low.bits \o high.bits, borrow |-> high.borrow]

\* a - b for b <= a
Sub(a, b) == IF a = <<>> THEN <<>> ELSE Trim(SubRange(a, b, 1, Len(a), 0).bits)

\* a times bits lo..hi of b (at their place)
RECURSIVE MulRange(_, _, _, _)
MulRange(a, b, lo, hi) ==
    IF lo = hi THEN (IF b[lo] = 1 THEN ShiftLeft(a, lo - 1) ELSE <<>>)
    ELSE LET mid == (lo + hi) \div 2 IN
         Add(MulRange(a, b, lo, mid), MulRange(a, b, mid + 1, hi))

Mul(a, b) == IF a = <<>> \/ b = <<>> THEN <<>> ELSE MulRange(a, b, 1, Len(b))

\* long division over bits hi..lo of a (high bits first) with remainder r so
\* far; the test on high.r makes the upper half be computed before the lower
RECURSIVE DivRange(_, _, _, _, _)
DivRange(a, b, lo, hi, r) ==
    IF lo = hi
    THEN LET r2 == Trim(<<a[lo]>> \o r) IN
         IF Leq(b, r2) THEN [q |-> <<1>>, r |-> Sub(r2, b)]
         ELSE [q |-> <<0>>, r |-> r2]
    ELSE LET mid == (lo + hi) \div 2
             high == DivRange(a, b, mid + 1, hi, r) IN
         IF high.r = <<>> \/ high.r # <<>>
         THEN LET low == DivRange(a, b, lo, mid, high.r) IN
              [q |-> low.q \o high.q, r |-> low.r]
         ELSE high

\* quotient and remainder of a by b, b # 0
DivMod(a, b) ==
    IF a = <<>> THEN [q |-> <<>>, r |-> <<>>]
    ELSE LET d == DivRange(a, b, 1, Len(a), <<>>) IN [q |-> Trim(d.q), r |-> d.r]

LowZeros(b) ==
    CHOOSE z \in 0..Len(b) :
        (z = Len(b) \/ b[z + 1] = 1) /\ \A j \in 1..z : b[j] = 0

\* An f64 that is finite and not negative is [m, e] for the value m * 2^e, with
\* m odd and below 2^53 (or m = 0, e = 0).  The values of this model stay far
\* inside the exponent range of f64, so no infinity, NaN or subnormal arises.
f64_norm(m, e) ==
    IF m = <<>> THEN [m |-> <<>>, e |-> 0]
    ELSE LET z == LowZeros(m) IN [m |-> ShiftRight(m, z), e |-> e + z]

\* the f64 nearest to (n + f) * 2^e, ties to even; sticky tells that the
\* fraction f in [0, 1) that was cut off below n is not zero
f64_round(n, e, sticky) ==
    IF Len(n) <= F64_MANTISSA_DIGITS THEN f64_norm(n, e)
    ELSE LET drop == Len(n) - F64_MANTISSA_DIGITS
             kept == ShiftRight(n, drop)
             low == sticky \/ \E i \in 1..(drop - 1) : n[i] = 1
             up == n[drop] = 1 /\ (low \/ kept[1] = 1) IN
         f64_norm(IF up THEN Add(kept, <<1>>) ELSE kept, e + drop)

\* `x as f64` for a u64 x (1165, 1166): rounds to 53 significant digits
u64_as_f64(b) == f64_round(b, 0, FALSE)

\* a / b for b # 0 (1165), correctly rounded
f64_div(a, b) ==
    IF a.m = <<>> THEN a
    ELSE LET k == F64_MANTISSA_DIGITS + 2 + Len(b.m) - Len(a.m)
             d == DivMod(ShiftLeft(a.m, k), b.m) IN
         f64_round(d.q, a.e - b.e - k, d.r # <<>>)

\* a * b (1166), correctly rounded
f64_mul(a, b) == f64_round(Mul(a.m, b.m), a.e + b.e, FALSE)

f64_leq(a, b) ==
    LET lo == Min(a.e, b.e) IN
    Leq(ShiftLeft(a.m, a.e - lo), ShiftLeft(b.m, b.e - lo))

\* f64::min (1166)
f64_min(a, b) == IF f64_leq(a, b) THEN a ELSE b

\* `x as u64` for an f64 x (1166): truncates, saturates at u64::MAX
f64_as_u64(a) ==
    IF a.e >= 0
    THEN LET v == ShiftLeft(a.m, a.e) IN IF Len(v) > U64_BITS THEN Ones(U64_BITS) ELSE v
    ELSE ShiftRight(a.m, 0 - a.e)

\* the local `scaled` of progress_fn (1163-1169), on u64 values
scaled(write_completed, write_total, total_size) ==
    IF write_total # <<>>
    THEN LET ratio == f64_div(u64_as_f64(write_completed), u64_as_f64(write_total)) IN
         f64_as_u64(f64_min(f64_mul(ratio, u64_as_f64(total_size)),
                            u64_as_f64(total_size)))
    ELSE <<>>


progress_scaled_noclamp(write_completed, write_total, total_size) ==
    IF write_total > 0 THEN (write_completed * total_size) \div write_total ELSE 0

\* progress_fn 1162-1172 on values that fit the checker's integers
progress_scaled(write_completed, write_total, total_size) ==
    NatOf(scaled(BitsOf(write_completed), BitsOf(write_total), BitsOf(total_size)))

\* the set_completed calls progress_fn makes for the format's reports
progress_events(reports, total_size) ==
    [k \in 1..Len(reports) |->
        Ev("set_completed", progress_scaled(reports[k][1], reports[k][2], total_size))]

completion_events_none(update_ok, total_size) == <<>>

\* 1192-1195, 1220-1223: completion is set to the declared total after Ok
completion_events(update_ok, total_size) ==
    IF update_ok THEN <<Ev("set_completed", total_size)>> ELSE <<>>

update_status_always_ok(update_ok) == S_OK

\* 1188-1197, 1216-1225: the status for the format's result
update_status(update_ok) == IF update_ok THEN S_OK ELSE S_FALSE

\* Write phase (1152-1227).  The answers: whether the seeks of the reader over
\* the held stream succeed, the (completed, total) pairs the format reports, and
\* whether the format's update succeeds.
UpdateWrite(seek_end_ok, seek_set_ok, reports, update_ok) ==
    /\ pc = "update_pass2"
    /\ call.i > Len(call.slots)
    /\ LET has_pw == try_from_callback(call.cb)
           pw == try_from_callback_events(call.cb)
           drop == password_drop_events(has_pw)
           reader == InStreamReader_new(in_stream, seek_end_ok, seek_set_ok, archive_size)
           run == <<Ev("inner_update", Len(call.updates))>>
                  \o progress_events(reports, call.total)
           done == completion_events(update_ok, call.total) IN
       /\ UNCHANGED pw_refs
       /\ call' = [call EXCEPT !.op = "update_items_done",
                               !.reported = IF in_stream # NULL /\ ~reader.ok
                                            THEN <<>> ELSE reports,
                               !.write = IF in_stream # NULL /\ ~reader.ok THEN "no_reader"
                                         ELSE IF update_ok THEN "ok" ELSE "error"]
       /\ IF in_stream # NULL /\ ~reader.ok
          THEN UpdateLeave(S_FALSE, pw \o reader.events \o drop)
          ELSE UpdateLeave(update_status(update_ok),
                           pw \o reader.events \o run \o done \o drop)

\* ------------------------------------------------------------------------
\* RawPropVariant (propvariant.rs)
\* ------------------------------------------------------------------------
\* Option<T>
Some(v) == [some |-> TRUE, value |-> v]

None == [some |-> FALSE]

\* Default for RawPropVariant (53-63); data is a u64
RawPropVariant_default == [vt |-> VT_EMPTY, data |-> <<>>]

\* The BSTR allocator of the platform.  A cell is one address it can hand out:
\* whether a string lives there, who allocated it, its 16-bit units, and the
\* SysFreeString calls made on the address since it was handed out.
BstrAddrs == 1..MaxBstrs

FreeCell == [live |-> FALSE, owner |-> "-", units |-> <<>>, frees |-> 0]

EmptyHeap == [a \in BstrAddrs |-> FreeCell]

CanAlloc(h) == \E a \in BstrAddrs : ~h[a].live

\* SysAllocStringLen / SysAllocStringByteLen: a fresh non-null address
SysAllocString(h, units, owner) ==
    LET a == CHOOSE x \in BstrAddrs :
                 ~h[x].live /\ \A y \in BstrAddrs : ~h[y].live => x <= y IN
    [heap |-> [h EXCEPT ![a] = [live |-> TRUE, owner |-> owner, units |-> units,
                                frees |-> 0]],
     ptr |-> BitsOf(a)]

SysFreeString(h, ptr) ==
    [h EXCEPT ![NatOf(ptr)].live = FALSE, ![NatOf(ptr)].frees = @ + 1]

\* clear (74-86).  Line 80 builds a temporary BSTR over the pointer, passes it
\* by reference to SysFreeString, and drops it at the end of the statement;
\* the Drop of windows::core::BSTR calls SysFreeString on the same pointer.
clear(v, h) ==
    [pv |-> [vt |-> VT_EMPTY, data |-> <<>>],
     heap |-> IF v.vt = VT_BSTR /\ v.data # <<>>
              THEN SysFreeString(SysFreeString(h, v.data), v.data)
              ELSE h]

\* set_empty (92-95): no clear
set_empty(v, h) == [pv |-> [vt |-> VT_EMPTY, data |-> <<>>], heap |-> h]

\* set_bstr (104-111); value is the string's UTF-16 units.  BSTR::from gives
\* the null BSTR for the empty string and an allocation otherwise.
set_bstr(v, h, value) ==
    LET c == clear(v, h)
        al == SysAllocString(c.heap, value, "self") IN
    IF value = <<>>
    THEN [pv |-> [vt |-> VT_BSTR, data |-> <<>>], heap |-> c.heap]
    ELSE [pv |-> [vt |-> VT_BSTR, data |-> al.ptr], heap |-> al.heap]

\* the 16-bit units of a byte string (little endian, a last odd byte padded by
\* the terminator)
bytes_as_units(bytes) ==
    [k \in 1..((Len(bytes) + 1) \div 2) |->
        bytes[2 * k - 1] + 256 * (IF 2 * k <= Len(bytes) THEN bytes[2 * k] ELSE 0)]

\* set_bytes (195-204): SysAllocStringByteLen allocates for every length
set_bytes(v, h, bytes) ==
    LET al == SysAllocString(clear(v, h).heap, bytes_as_units(bytes), "self") IN
    [pv |-> [vt |-> VT_BSTR, data |-> al.ptr], heap |-> al.heap]

\* set_guid (174-185)
set_guid(v, h, bytes) ==
    LET al == SysAllocString(clear(v, h).heap, bytes_as_units(bytes), "self") IN
    [pv |-> [vt |-> VT_BSTR, data |-> al.ptr], heap |-> al.heap]

\* set_u32 (118-124): value is a u32, `value as u64` keeps its digits
set_u32(v, h, value) == [pv |-> [vt |-> VT_UI4, data |-> value], heap |-> clear(v, h).heap]

set_u64_low32(v, h, value) ==
    [pv |-> [vt |-> VT_UI8, data |-> LowBits(value, U32_BITS)], heap |-> clear(v, h).heap]

\* set_u64 (131-137)
set_u64(v, h, value) == [pv |-> [vt |-> VT_UI8, data |-> value], heap |-> clear(v, h).heap]

set_bool_one(v, h, value) ==
    [pv |-> [vt |-> VT_BOOL, data |-> IF value THEN BitsOf(1) ELSE <<>>],
     heap |-> clear(v, h).heap]

\* set_bool (144-151)
set_bool(v, h, value) ==
    [pv |-> [vt |-> VT_BOOL, data |-> IF value THEN BitsOf(VARIANT_TRUE) ELSE <<>>],
     heap |-> clear(v, h).heap]

\* set_filetime (158-164)
set_filetime(v, h, value) ==
    [pv |-> [vt |-> VT_FILETIME, data |-> value], heap |-> clear(v, h).heap]

\* the units before the first zero unit (219-223)
UpToNul(units) ==
    LET n == CHOOSE k \in 0..Len(units) :
                 (k = Len(units) \/ units[k + 1] = 0) /\ \A j \in 1..k : units[j] # 0 IN
    SubSeq(units, 1, n)

\* get_bstr (210-228); from_utf16_lossy keeps well-formed units as they are
get_bstr(v, h) ==
    IF v.vt # VT_BSTR THEN None
    ELSE IF v.data = <<>> THEN None
    ELSE Some(UpToNul(h[NatOf(v.data)].units))

\* get_u64 (233-239)
get_u64(v) ==
    IF v.vt = VT_UI8 THEN Some(v.data)
    ELSE IF v.vt = VT_UI4 THEN Some(LowBits(v.data, U32_BITS))
    ELSE None

get_u32_any_tag(v) == Some(LowBits(v.data, U32_BITS))

\* get_u32 (244-250): `self.data as u32` keeps the low 32 digits
get_u32(v) == IF v.vt = VT_UI4 THEN Some(LowBits(v.data, U32_BITS)) ELSE None

\* get_bool (256-262)
get_bool(v) == IF v.vt = VT_BOOL THEN Some(v.data # <<>>) ELSE None

\* FILETIME_UNIX_DIFF (21): 116444736000000000
FILETIME_UNIX_DIFF == Mul(BitsOf(116444736), BitsOf(1000000000))

\* + on u64 (29): wraps at 2^64 in a release build
u64_add(a, b) == LowBits(Add(a, b), U64_BITS)

systemtime_to_filetime_wrapping(time) ==
    LET nanos_100 == DivMod(time.nanos, BitsOf(100)).q IN
    IF time.after THEN u64_add(FILETIME_UNIX_DIFF, LowBits(nanos_100, U64_BITS))
    ELSE Sub(Pow2(U64_BITS), LowBits(nanos_100, U64_BITS))

\* systemtime_to_filetime (24-36).  A SystemTime is given by its distance to
\* UNIX_EPOCH in nanoseconds and its side of it: duration_since is Ok for a
\* time at or after the epoch and Err for an earlier one.
systemtime_to_filetime(time) ==
    IF time.after
    THEN LET nanos_100 == DivMod(time.nanos, BitsOf(100)).q IN
         u64_add(FILETIME_UNIX_DIFF, LowBits(nanos_100, U64_BITS))
    ELSE <<>>

\* ------------------------------------------------------------------------
\* Specification: the life of one object under serialized host calls
\* ------------------------------------------------------------------------
\* The two host streams of this specification: their byte sizes and the archives
\* the format parses from them
StreamSize(s) == IF s = 1 THEN 1 ELSE 2

StreamItems(s) == IF s = 1 THEN <<2>> ELSE <<1, 2>>

OutStreams == {NULL, 7}           \* an output stream argument: null, or a stream

\* The update lists of this specification
LifeUpdates == {<<>>, <<NewFile(1)>>, <<CopyOf(0)>>, <<Deletion>>}

\* What the host answers for one slot of the second pass: <<get_update_item_info
\* ok, get_property(Path) ok, get_stream ok, a stream is supplied, the chunks it
\* returns, the read after them faults>>
Pass2Answers == {<<FALSE, TRUE, TRUE, FALSE, <<>>, FALSE>>,
                 <<TRUE, FALSE, TRUE, FALSE, <<>>, FALSE>>,
                 <<TRUE, TRUE, FALSE, FALSE, <<>>, FALSE>>,
                 <<TRUE, TRUE, TRUE, FALSE, <<>>, FALSE>>}
                \cup {<<TRUE, TRUE, TRUE, TRUE, c, f>> :
                        c \in {<<>>, << <<1>> >>, << <<1>>, <<2>> >>}, f \in BOOLEAN}

\* <<seek to end ok, seek to start ok, the format's update succeeds>>
WriteAnswers == {<<FALSE, TRUE, FALSE>>, <<TRUE, FALSE, FALSE>>,
                 <<TRUE, TRUE, FALSE>>, <<TRUE, TRUE, TRUE>>}

\* the progress reports of the format in this specification
LifeReports == {<<>>, << <<1, 2>> >>}

\* What the host and the format answer during one open:
\* <<seek to end succeeds, seek to start succeeds, the format accepts the archive>>
OpenAnswers == {<<FALSE, TRUE, FALSE>>, <<TRUE, FALSE, FALSE>>,
                <<TRUE, TRUE, FALSE>>, <<TRUE, TRUE, TRUE>>}

\* ------------------------------------------------------------------------
Init ==
    /\ supports_write \in BOOLEAN
    /\ pv = RawPropVariant_default
    /\ heap = EmptyHeap
    /\ obj = "none"
    /\ addr = NULL
    /\ ref_count = 0
    /\ in_stream = NULL
    /\ archive_size = 0
    /\ is_open = FALSE
    /\ inner = <<>>
    /\ held = [k \in PtrKinds |-> 0]
    /\ stream_refs = [s \in Streams |-> 0]
    /\ leaked = 0
    /\ dealloc_count = 0
    /\ wild = FALSE
    /\ pw_refs = 0
    /\ pc = "idle"
    /\ call = NoCall
    /\ trace = <<>>
    /\ ret = Ret("init", NO_HR, 0, NULL)

Next ==
    \/ \E c \in CLSIDs, i \in IIDs, ok \in BOOLEAN : CreateObject(c, i, ok)
    \/ \E k \in PtrKinds, i \in IIDs, ok \in BOOLEAN : QueryInterface(k, i, ok)
    \/ \E k \in PtrKinds : AddRef(k)
    \/ \E k \in PtrKinds : Release(k)
    \/ \E s \in Streams \cup {NULL}, cb \in Callbacks, a \in OpenAnswers :
            Open(s, cb, a[1], a[2], StreamSize(s), a[3], StreamItems(s))
    \/ Close
    \/ \E i \in 0..MaxItems, p \in {PropId_Size, PropId_Other}, ok \in BOOLEAN :
            GetProperty(i, p, ok)

Spec == Init /\ [][Next]_vars

\* ------------------------------------------------------------------------
\* Specification: open, close, update_items and release on an object of a format
\* with write support
\* ------------------------------------------------------------------------
\* The object after create_object(IID_IOutArchive) and one
\* query_interface(IID_IInArchive): the host holds both interface pointers
InitUpdate ==
    /\ supports_write = TRUE
    /\ pv = RawPropVariant_default
    /\ heap = EmptyHeap
    /\ obj = "alive"
    /\ addr \in Addrs
    /\ ref_count = fetch_add(create_handler.ref_count)
    /\ in_stream = create_handler.in_stream
    /\ archive_size = create_handler.archive_size
    /\ is_open = create_handler.is_open
    /\ inner = create_handler.inner
    /\ held = [k \in PtrKinds |-> 1]
    /\ stream_refs = [s \in Streams |-> 0]
    /\ leaked = 0
    /\ dealloc_count = 0
    /\ wild = FALSE
    /\ pw_refs = 0
    /\ pc = "idle"
    /\ call = NoCall
    /\ trace = <<>>
    /\ ret = Ret("init", NO_HR, 0, NULL)

NextUpdate ==
    \/ \E s \in Streams \cup {NULL}, a \in OpenAnswers :
            Open(s, "null", a[1], a[2], StreamSize(s), a[3], StreamItems(s))
    \/ Close
    \/ \E k \in PtrKinds : Release(k)
    \/ \E o \in OutStreams, cb \in {"null", "plain", "crypto"}, sl \in LifeUpdates :
            UpdateItemsBegin(o, cb, sl)
    \/ \E ok \in BOOLEAN : UpdatePass1(ok)
    \/ UpdateSetTotal
    \/ \E a \in Pass2Answers : UpdatePass2(a[1], a[2], a[3], a[4], a[5], a[6])
    \/ \E a \in WriteAnswers, r \in LifeReports : UpdateWrite(a[1], a[2], r, a[3])

SpecUpdate == InitUpdate /\ [][NextUpdate]_vars

\* ------------------------------------------------------------------------
\* Specification: host threads calling the IUnknown entries concurrently
\* ------------------------------------------------------------------------
\* Each thread owns references (per interface pointer) and calls
\* query_interface, add_ref and release through a pointer it owns a reference
\* on.  fetch_add and fetch_sub are single atomic steps (SeqCst); what release
\* does after its fetch_sub is a later step of the same thread, so the steps of
\* other threads interleave between them.  `call` holds, per thread, the
\* references it owns, its position and the count its fetch_sub returned.
Threads == 1..MaxThreads

Owned(t) == call[t].own["in"] + call[t].own["out"]

RECURSIVE SumOwned(_)
SumOwned(n) == IF n = 0 THEN 0 ELSE Owned(n) + SumOwned(n - 1)

\* The object after create_object and MaxThreads - 1 query_interface calls, one
\* reference handed to each thread: thread 1 holds the read pointer, the others
\* the write pointer
InitConc ==
    /\ supports_write = TRUE
    /\ pv = RawPropVariant_default
    /\ heap = EmptyHeap
    /\ obj = "alive"
    /\ addr \in Addrs
    /\ ref_count = MaxThreads
    /\ in_stream \in {NULL, 1}
    /\ archive_size = IF in_stream = NULL THEN 0 ELSE StreamSize(1)
    /\ is_open = (in_stream # NULL)
    /\ inner = IF in_stream = NULL THEN <<>> ELSE StreamItems(1)
    /\ held = [k \in PtrKinds |-> IF k = "in" THEN 1 ELSE MaxThreads - 1]
    /\ stream_refs = [s \in Streams |-> IF s = in_stream THEN 1 ELSE 0]
    /\ leaked = 0
    /\ dealloc_count = 0
    /\ wild = FALSE
    /\ pw_refs = 0
    /\ pc = "threads"
    /\ call = [t \in Threads |->
                 [own |-> [k \in PtrKinds |-> IF (t = 1) = (k = "in") THEN 1 ELSE 0],
                  pc |-> "idle", count |-> 0]]
    /\ trace = <<>>
    /\ ret = Ret("init", NO_HR, 0, NULL)

ConcFrame ==
    UNCHANGED <<supports_write, pv, heap, addr, archive_size, is_open, inner, leaked, pw_refs, pc>>

\* A thread touched the allocation after it was dropped
UseAfterFree(op) ==
    /\ wild' = TRUE
    /\ ret' = Ret(op, NO_HR, 0, NULL)
    /\ UNCHANGED <<obj, ref_count, in_stream, held, stream_refs, dealloc_count, call,
                   trace>>

\* add_ref / out_add_ref by thread t through its pointer of kind `via`
ConcAddRef(t, via) ==
    /\ pc = "threads"
    /\ call[t].pc = "idle"
    /\ call[t].own[via] > 0
    /\ SumOwned(MaxThreads) < MaxRefs
    /\ ConcFrame
    /\ IF obj # "alive" \/ ThisOf(PtrOf(addr, via), via) # addr
       THEN UseAfterFree("add_ref")
       ELSE /\ ref_count' = fetch_add(ref_count)
            /\ call' = [call EXCEPT ![t].own[via] = @ + 1]
            /\ held' = [held EXCEPT ![via] = @ + 1]
            /\ ret' = Ret("add_ref", NO_HR, ref_count', NULL)
            /\ UNCHANGED <<obj, in_stream, stream_refs, dealloc_count, wild, trace>>

\* query_interface / out_query_interface by thread t
ConcQueryInterface(t, via, riid) ==
    /\ pc = "threads"
    /\ call[t].pc = "idle"
    /\ call[t].own[via] > 0
    /\ SumOwned(MaxThreads) < MaxRefs
    /\ ConcFrame
    /\ LET k == query_interface_kind(riid) IN
       IF obj # "alive" \/ ThisOf(PtrOf(addr, via), via) # addr
       THEN UseAfterFree("query_interface")
       ELSE IF k = "none"
       THEN /\ ret' = Ret("query_interface", E_NOINTERFACE, ref_count, NULL)
            /\ UNCHANGED <<obj, ref_count, in_stream, held, stream_refs, dealloc_count,
                           wild, call, trace>>
       ELSE /\ ref_count' = fetch_add(ref_count)
            /\ call' = [call EXCEPT ![t].own[k] = @ + 1]
            /\ held' = [held EXCEPT ![k] = @ + 1]
            /\ ret' = Ret("query_interface", S_OK, ref_count', PtrOf(addr, k))
            /\ UNCHANGED <<obj, in_stream, stream_refs, dealloc_count, wild, trace>>

\* release / out_release by thread t, first step: the atomic fetch_sub (276)
ConcReleaseDec(t, via) ==
    /\ pc = "threads"
    /\ call[t].pc = "idle"
    /\ call[t].own[via] > 0
    /\ ConcFrame
    /\ IF obj # "alive" \/ ThisOf(PtrOf(addr, via), via) # addr
       THEN UseAfterFree("release")
       ELSE /\ ref_count' = fetch_sub(ref_count)
            /\ call' = [call EXCEPT ![t].own[via] = @ - 1, ![t].pc = "released",
                                    ![t].count = fetch_sub(ref_count)]
            /\ held' = [held EXCEPT ![via] = @ - 1]
            /\ ret' = Ret("release", "running", ref_count', NULL)
            /\ UNCHANGED <<obj, in_stream, stream_refs, dealloc_count, wild, trace>>

\* release, second step: the test of the returned count and the destruction (277-287)
ConcReleaseDestroy(t) ==
    /\ pc = "threads"
    /\ call[t].pc = "released"
    /\ ConcFrame
    /\ call' = [call EXCEPT ![t].pc = "idle"]
    /\ ret' = Ret("release", NO_HR, call[t].count, NULL)
    /\ UNCHANGED <<ref_count, held>>
    /\ IF ~release_destroys(call[t].count)
       THEN UNCHANGED <<obj, in_stream, stream_refs, dealloc_count, wild, trace>>
       ELSE /\ trace' = trace \o release_events(in_stream)
            /\ stream_refs' = ApplyStreamEvents(stream_refs, release_events(in_stream))
            /\ in_stream' = NULL
            /\ obj' = "freed"
            /\ dealloc_count' = dealloc_count + 1
            /\ wild' = (wild \/ obj # "alive")

NextConc ==
    \/ \E t \in Threads, k \in PtrKinds : ConcAddRef(t, k)
    \/ \E t \in Threads, k \in PtrKinds, i \in {IID_IINARCHIVE, IID_IOUTARCHIVE, IID_OTHER} :
            ConcQueryInterface(t, k, i)
    \/ \E t \in Threads, k \in PtrKinds : ConcReleaseDec(t, k)
    \/ \E t \in Threads : ConcReleaseDestroy(t)

SpecConc == InitConc /\ [][NextConc]_vars

\* ------------------------------------------------------------------------
\* Specification: the extraction protocol, over every archive of the bounds
\* ------------------------------------------------------------------------
IndexLists == SeqsUpTo(0..MaxItems, 2)

\* What the host and the format answer in one iteration: <<status of get_stream,
\* the stream supplied, the format's extraction succeeds, status of
\* set_operation_result>>.  Answers the code never looks at (after a failed
\* get_stream, the format's verdict without a stream) are drawn once.
ExtractAnswers ==
    {<<g, NULL, TRUE, S_OK>> : g \in HostStatuses \ {S_OK}}
    \cup {<<S_OK, NULL, TRUE, r>> : r \in HostStatuses}
    \cup {<<S_OK, 7, e, r>> : e \in BOOLEAN, r \in HostStatuses}

\* The object right after create_object and a successful open of stream 1.
\* extract leaves the object as it found it, so a behaviour follows one extract
\* call to its return (calls refused for a null callback may come before it).
InitExtract ==
    /\ supports_write = FALSE
    /\ pv = RawPropVariant_default
    /\ heap = EmptyHeap
    /\ obj = "alive"
    /\ addr \in Addrs
    /\ ref_count = create_handler.ref_count
    /\ in_stream = 1
    /\ archive_size = StreamSize(1)
    /\ is_open = TRUE
    /\ inner \in Archives
    /\ held = [k \in PtrKinds |-> IF k = "in" THEN 1 ELSE 0]
    /\ stream_refs = [s \in Streams |-> IF s = 1 THEN 1 ELSE 0]
    /\ leaked = 0
    /\ dealloc_count = 0
    /\ wild = FALSE
    /\ pw_refs = 0
    /\ pc = "idle"
    /\ call = NoCall
    /\ trace = <<>>
    /\ ret = Ret("init", NO_HR, 0, NULL)

NextExtract ==
    \/ /\ call = NoCall
       /\ \E idx \in IndexLists, t \in {0, 1}, cb \in {"null", "plain", "crypto"} :
            ExtractBegin(idx, Len(idx), t, cb)
    \/ /\ call = NoCall
       /\ \E t \in {0, 1}, cb \in {"null", "plain", "crypto"} :
            ExtractBegin(<<>>, ALL_ITEMS, t, cb)
    \/ \E a \in ExtractAnswers : ExtractItem(a[1], a[2], a[3], a[4])
    \/ ExtractReturn

SpecExtract == InitExtract /\ [][NextExtract]_vars

\* ------------------------------------------------------------------------
\* Specification: one update_items call over every update list of the bounds
\* ------------------------------------------------------------------------
\* The kinds of slot the host puts in an update list.  A copy slot may name an
\* index the archive does not have (MaxItems is beyond both archives here).
SlotKinds ==
    {NewFile(n) : n \in Sizes} \cup {NewFileNoSize, NewDir, Deletion}
    \cup {CopyOf(i) : i \in 0..MaxItems}

UpdateLists == SeqsUpTo(SlotKinds, 2)

\* the (completed, total) pairs the format reports during the write
CollectReports ==
    {<<>>, << <<1, 2>> >>, << <<2, 2>> >>, << <<3, 2>> >>, << <<1, 0>> >>,
     << <<2, 2>>, <<1, 2>> >>}

\* <<seek to end ok, seek to start ok, reports, the format's update succeeds>>
CollectWriteAnswers ==
    {<<FALSE, TRUE, <<>>, FALSE>>, <<TRUE, FALSE, <<>>, FALSE>>}
    \cup {<<TRUE, TRUE, r, ok>> : r \in CollectReports, ok \in BOOLEAN}

\* The object after create_object(IID_IOutArchive) and
\* query_interface(IID_IInArchive), never opened (a new archive is written) or
\* open on one of the two streams
InitCollect ==
    /\ supports_write = TRUE
    /\ pv = RawPropVariant_default
    /\ heap = EmptyHeap
    /\ obj = "alive"
    /\ addr \in Addrs
    /\ ref_count = fetch_add(create_handler.ref_count)
    /\ in_stream \in Streams \cup {NULL}
    /\ archive_size = IF in_stream = NULL THEN create_handler.archive_size
                      ELSE StreamSize(in_stream)
    /\ is_open = (in_stream # NULL)
    /\ inner = IF in_stream = NULL THEN create_handler.inner ELSE StreamItems(in_stream)
    /\ held = [k \in PtrKinds |-> 1]
    /\ stream_refs = [s \in Streams |-> IF s = in_stream THEN 1 ELSE 0]
    /\ leaked = 0
    /\ dealloc_count = 0
    /\ wild = FALSE
    /\ pw_refs = 0
    /\ pc = "idle"
    /\ call = NoCall
    /\ trace = <<>>
    /\ ret = Ret("init", NO_HR, 0, NULL)

\* A behaviour follows one update_items call to its return
NextCollect ==
    \/ /\ call = NoCall
       /\ \E o \in OutStreams, cb \in {"null", "plain", "crypto"}, sl \in UpdateLists :
            UpdateItemsBegin(o, cb, sl)
    \/ \E ok \in BOOLEAN : UpdatePass1(ok)
    \/ UpdateSetTotal
    \/ \E a \in Pass2Answers : UpdatePass2(a[1], a[2], a[3], a[4], a[5], a[6])
    \/ \E a \in CollectWriteAnswers : UpdateWrite(a[1], a[2], a[3], a[4])

SpecCollect == InitCollect /\ [][NextCollect]_vars

\* ------------------------------------------------------------------------
\* Specification: the progress reports of one write phase, on u64 values
\* ------------------------------------------------------------------------
progress_continue_on_ok(status) == status = S_OK

\* 1170-1171: the status of set_completed is dropped, the closure returns true
progress_continue(status) == TRUE

\* One call of progress_fn by the format (1162-1172): the scaled value goes to
\* the host's set_completed, which answers `status`
ProgressReport(write_completed, write_total, status) ==
    /\ pc = "update_write"
    /\ call.go
    /\ CountEv(trace, "set_completed") < MaxReports
    /\ trace' = Append(trace, Ev("set_completed",
                                 scaled(write_completed, write_total, call.total_size)))
    /\ call' = [call EXCEPT !.go = progress_continue(status),
                            !.cancelled = call.cancelled \/ status # S_OK]
    /\ ret' = RetOf("progress_fn", status, progress_continue(status), NULL, "-",
                    <<write_completed, write_total>>)
    /\ UNCHANGED <<supports_write, pv, heap, obj, addr, handlerVars, held, stream_refs, leaked,
                   dealloc_count, wild, pw_refs, pc>>

\* The format's update returns (1188-1197, 1216-1225)
WriteReturn(update_ok) ==
    /\ pc = "update_write"
    /\ trace' = trace \o completion_events(update_ok, call.total_size)
    /\ call' = [call EXCEPT !.op = "write_done",
                            !.write = IF update_ok THEN "ok" ELSE "error"]
    /\ ret' = Ret("update_items", update_status(update_ok), 0, NULL)
    /\ pc' = "idle"
    /\ UNCHANGED <<supports_write, pv, heap, obj, addr, handlerVars, held, stream_refs, leaked,
                   dealloc_count, wild, pw_refs>>

\* the declared totals: small ones, and ones that need more than the 53
\* significant digits of an f64
ProgressTotals ==
    {BitsOf(n) : n \in 0..3}
    \cup {Pow2(F64_MANTISSA_DIGITS) \o <<>>,
          Add(Pow2(F64_MANTISSA_DIGITS), BitsOf(1)),
          Add(Pow2(F64_MANTISSA_DIGITS), BitsOf(3)),
          Ones(U64_BITS) \o <<>>}

\* the (completed, total) pairs the format reports
ProgressPairs ==
    {<<BitsOf(1), BitsOf(0)>>, <<BitsOf(0), BitsOf(2)>>, <<BitsOf(1), BitsOf(2)>>,
     <<BitsOf(2), BitsOf(2)>>, <<BitsOf(3), BitsOf(2)>>, <<BitsOf(1), BitsOf(3)>>,
     <<Ones(U64_BITS) \o <<>>, BitsOf(1)>>}

\* update_items_inner at 1152 on a handler without a stream: the total was
\* declared, the format's update is about to run
InitProgress ==
    /\ supports_write = TRUE
    /\ pv = RawPropVariant_default
    /\ heap = EmptyHeap
    /\ obj = "alive"
    /\ addr \in Addrs
    /\ ref_count = fetch_add(create_handler.ref_count)
    /\ in_stream = NULL
    /\ archive_size = create_handler.archive_size
    /\ is_open = FALSE
    /\ inner = create_handler.inner
    /\ held = [k \in PtrKinds |-> 1]
    /\ stream_refs = [s \in Streams |-> 0]
    /\ leaked = 0
    /\ dealloc_count = 0
    /\ wild = FALSE
    /\ pw_refs = 0
    /\ pc = "update_write"
    /\ \E total_size \in ProgressTotals :
          /\ call = [op |-> "write", total_size |-> total_size, go |-> TRUE,
                     cancelled |-> FALSE, write |-> "none"]
          /\ trace = <<Ev("set_total", total_size)>>
    /\ ret = Ret("init", NO_HR, 0, NULL)

NextProgress ==
    \/ \E p \in ProgressPairs, status \in HostStatuses : ProgressReport(p[1], p[2], status)
    \/ \E ok \in BOOLEAN : WriteReturn(ok)

SpecProgress == InitProgress /\ [][NextProgress]_vars

\* ------------------------------------------------------------------------
\* Specification: encode, clear and decode operations on one variant
\* ------------------------------------------------------------------------
VariantFrame ==
    UNCHANGED <<supports_write, obj, addr, handlerVars, held, stream_refs, leaked,
                dealloc_count, wild, pw_refs, pc, call>>

\* an encode or clear: r is the variant and the heap it leaves
Encode(name, arg, r) ==
    /\ pv' = r.pv
    /\ heap' = r.heap
    /\ trace' = <<Ev(name, arg)>>
    /\ ret' = Ret(name, NO_HR, 0, NULL)
    /\ VariantFrame

\* a decode: the variant is only read
Decode(name, result) ==
    /\ ret' = Ret(name, NO_HR, result, NULL)
    /\ UNCHANGED <<pv, heap, trace>>
    /\ VariantFrame

Clear == Encode("clear", 0, clear(pv, heap))

SetEmpty == Encode("set_empty", 0, set_empty(pv, heap))

SetBstr(value) ==
    /\ value # <<>> => CanAlloc(clear(pv, heap).heap)
    /\ Encode("set_bstr", value, set_bstr(pv, heap, value))

SetBytes(bytes) ==
    /\ CanAlloc(clear(pv, heap).heap)
    /\ Encode("set_bytes", bytes, set_bytes(pv, heap, bytes))

SetGuid(bytes) ==
    /\ CanAlloc(clear(pv, heap).heap)
    /\ Encode("set_guid", bytes, set_guid(pv, heap, bytes))

SetU32(value) == Encode("set_u32", value, set_u32(pv, heap, value))

SetU64(value) == Encode("set_u64", value, set_u64(pv, heap, value))

SetBool(value) == Encode("set_bool", value, set_bool(pv, heap, value))

\* the vt values a variant arrives with
VariantTags == {VT_EMPTY, VT_UI4, VT_UI8, VT_BSTR, VT_BOOL, VT_FILETIME, VT_OTHER}

\* u64 values: 0, 1, 0xFFFF, 2^32 - 1, 2^32 + 1 and 2^64 - 1
U64Values ==
    {BitsOf(0), BitsOf(1), BitsOf(VARIANT_TRUE), Ones(U32_BITS) \o <<>>,
     Add(Pow2(U32_BITS), BitsOf(1)), Ones(U64_BITS) \o <<>>}

U32Values == {BitsOf(0), BitsOf(1), Ones(U32_BITS) \o <<>>}

\* strings, as UTF-16 units: "", "a", "ab"
BstrValues == {<<>>, <<97>>, <<97, 98>>}

\* byte strings: empty, one byte, the four bytes of a signature
ByteValues == {<<>>, <<55>>, <<55, 122, 188, 175>>}

GuidBytes == [i \in 1..16 |-> i]

\* the largest SystemTime of the platform: 2^63 - 1 intervals of 100 ns after
\* 1601-01-01, as nanoseconds after UNIX_EPOCH
SystemTimeMaxNanos == Mul(Sub(Ones(U64_BITS - 1), FILETIME_UNIX_DIFF), BitsOf(100))

\* times of the platform (whole 100 ns intervals): the epoch, 100 ns, 1 s and
\* the largest time after it; 100 ns, 1 s and 1601-01-01 before it
SystemTimes ==
    {[after |-> TRUE, nanos |-> n] :
        n \in {BitsOf(0), BitsOf(100), BitsOf(1000000000), SystemTimeMaxNanos}}
    \cup {[after |-> FALSE, nanos |-> n] :
        n \in {BitsOf(100), BitsOf(1000000000), Mul(FILETIME_UNIX_DIFF, BitsOf(100))}}

\* systemtime_to_filetime on each time of this specification
FiletimeTable == [time \in SystemTimes |-> systemtime_to_filetime(time)]

\* handler.rs 574, 581, 588: prop.set_filetime(systemtime_to_filetime(time))
SetFiletime(time) ==
    Encode("set_filetime", time, set_filetime(pv, heap, FiletimeTable[time]))

GetBstr == Decode("get_bstr", get_bstr(pv, heap))

GetU64 == Decode("get_u64", get_u64(pv))

GetU32 == Decode("get_u32", get_u32(pv))

GetBool == Decode("get_bool", get_bool(pv))

\* the heap when the host handed a variant that holds a string of the host
HostStringHeap ==
    [a \in BstrAddrs |-> IF a = 1
                         THEN [live |-> TRUE, owner |-> "host", units |-> <<104>>,
                               frees |-> 0]
                         ELSE FreeCell]

\* A variant as the code gets it: a default one (handler.rs 1048, 1086, 1101), or
\* one the host owns and passes in (handler.rs 537-617, exports.rs 220-262)
InitVariant ==
    /\ supports_write = TRUE
    /\ obj = "alive"
    /\ addr \in Addrs
    /\ ref_count = fetch_add(create_handler.ref_count)
    /\ in_stream = NULL
    /\ archive_size = create_handler.archive_size
    /\ is_open = FALSE
    /\ inner = create_handler.inner
    /\ held = [k \in PtrKinds |-> 1]
    /\ stream_refs = [s \in Streams |-> 0]
    /\ leaked = 0
    /\ dealloc_count = 0
    /\ wild = FALSE
    /\ pw_refs = 0
    /\ pc = "idle"
    /\ call = NoCall
    /\ trace = <<>>
    /\ ret = Ret("init", NO_HR, 0, NULL)
    /\ \/ /\ pv \in [vt : VariantTags \ {VT_BSTR}, data : U64Values]
          /\ heap = EmptyHeap
       \/ /\ pv = [vt |-> VT_BSTR, data |-> <<>>]
          /\ heap = EmptyHeap
       \/ /\ pv = [vt |-> VT_BSTR, data |-> BitsOf(1)]
          /\ heap = HostStringHeap

NextVariant ==
    \/ Clear
    \/ SetEmpty
    \/ \E value \in BstrValues : SetBstr(value)
    \/ \E bytes \in ByteValues : SetBytes(bytes)
    \/ SetGuid(GuidBytes)
    \/ \E value \in U32Values : SetU32(value)
    \/ \E value \in U64Values : SetU64(value)
    \/ \E value \in BOOLEAN : SetBool(value)
    \/ \E time \in SystemTimes : SetFiletime(time)
    \/ GetBstr
    \/ GetU64
    \/ GetU32
    \/ GetBool

SpecVariant == InitVariant /\ [][NextVariant]_vars

\* ------------------------------------------------------------------------
\* Specification: InStreamReader::new over a host stream
\* ------------------------------------------------------------------------
\* IInStream::seek of the host, as the two calls of InStreamReader::new use it:
\* a successful seek(0, STREAM_SEEK_END) leaves the stream at its size and a
\* successful seek(0, STREAM_SEEK_SET) at offset 0; a failed seek leaves it
\* where it was.  The position after the seeks of `events`:
position_after(pos, size, events, seek_end_ok, seek_set_ok) ==
    IF CountEv(events, "seek_set") > 0 /\ seek_set_ok THEN 0
    ELSE IF CountEv(events, "seek_end") > 0 /\ seek_end_ok THEN size
    ELSE pos

\* InStreamReader::new(handle) (96-129) on the stream in `call`; the host
\* answers whether each seek succeeds, and its size as the new position of the
\* seek to the end
NewReader(seek_end_ok, seek_set_ok) ==
    /\ call.op = "reader_init"
    /\ LET reader == InStreamReader_new(call.handle, seek_end_ok, seek_set_ok, call.size) IN
       /\ trace' = reader.events
       /\ call' = [call EXCEPT !.op = "reader_done",
                               !.pos = position_after(call.pos, call.size, reader.events,
                                                      seek_end_ok, seek_set_ok),
                               !.answers = <<seek_end_ok, seek_set_ok>>]
       /\ ret' = Ret("InStreamReader_new", IF reader.ok THEN S_OK ELSE E_FAIL,
                     reader.size, NULL)
    /\ UNCHANGED <<supports_write, pv, heap, obj, addr, handlerVars, held, stream_refs,
                   leaked, dealloc_count, wild, pw_refs, pc>>

\* the byte sizes of the host's stream
ReaderSizes == 0..(MaxSize + 2)

\* A handle (null, or one of the two streams), the size of the stream behind it
\* and the position the host left it at
InitReader ==
    /\ supports_write = TRUE
    /\ pv = RawPropVariant_default
    /\ heap = EmptyHeap
    /\ obj = "alive"
    /\ addr \in Addrs
    /\ ref_count = fetch_add(create_handler.ref_count)
    /\ in_stream = NULL
    /\ archive_size = create_handler.archive_size
    /\ is_open = FALSE
    /\ inner = create_handler.inner
    /\ held = [k \in PtrKinds |-> 1]
    /\ stream_refs = [s \in Streams |-> 0]
    /\ leaked = 0
    /\ dealloc_count = 0
    /\ wild = FALSE
    /\ pw_refs = 0
    /\ pc = "idle"
    /\ \E handle \in Streams \cup {NULL}, size \in ReaderSizes :
          \E pos \in 0..size :
              call = [op |-> "reader_init", handle |-> handle, size |-> size,
                      pos |-> pos, start |-> pos, answers |-> <<>>]
    /\ trace = <<>>
    /\ ret = Ret("init", NO_HR, 0, NULL)

NextReader == \E seek_end_ok, seek_set_ok \in BOOLEAN : NewReader(seek_end_ok, seek_set_ok)

SpecReader == InitReader /\ [][NextReader]_vars

\* ------------------------------------------------------------------------
\* Specification: writes through SeqOutStreamWriter
\* ------------------------------------------------------------------------
\* most calls of write in one behaviour
MaxWrites == 2

\* SeqOutStreamWriter::write without the test of `written`
SeqOutStreamWriter_write_nozero(stream, buf_len, hr, written) ==
    IF buf_len = 0 THEN [ok |-> TRUE, n |-> 0, kind |-> "-", events |-> <<>>]
    ELSE LET chunk_size == Min(buf_len, U32_MAX) IN
         IF is_err(hr)
         THEN [ok |-> FALSE, n |-> 0, kind |-> "Other",
               events |-> <<Ev("write", <<stream, chunk_size>>)>>]
         ELSE [ok |-> TRUE, n |-> written, kind |-> "-",
               events |-> <<Ev("write", <<stream, chunk_size>>)>>]

\* impl std::io::Write for SeqOutStreamWriter: write(buf) on a buffer of
\* buf_len bytes, where the host's ISequentialOutStream::write answers the
\* status hr and `written` processed bytes.  The result is Ok(n) or an
\* io::Error of the given kind; events is the call made to the host.
SeqOutStreamWriter_write(stream, buf_len, hr, written) ==
    IF buf_len = 0 THEN [ok |-> TRUE, n |-> 0, kind |-> "-", events |-> <<>>]
    ELSE LET chunk_size == Min(buf_len, U32_MAX) IN
         IF is_err(hr)
         THEN [ok |-> FALSE, n |-> 0, kind |-> "Other",
               events |-> <<Ev("write", <<stream, chunk_size>>)>>]
         ELSE IF written = 0
         THEN [ok |-> FALSE, n |-> 0, kind |-> "WriteZero",
               events |-> <<Ev("write", <<stream, chunk_size>>)>>]
         ELSE [ok |-> TRUE, n |-> written, kind |-> "-",
               events |-> <<Ev("write", <<stream, chunk_size>>)>>]

\* the lengths of the buffers a format hands to write
BufLens == 0..(MaxSize + 1) \cup {U32_MAX}

\* the statuses the host's stream returns (S_FALSE is a success status)
WriteStatuses == {S_OK, S_FALSE, E_FAIL, E_ABORT}

\* the byte counts the host's stream reports
WrittenCounts == 0..(MaxSize + 1)

\* One call of write by the format on the writer in `call`
WriterWrite(buf_len, hr, written) ==
    /\ call.op = "writer"
    /\ call.writes < MaxWrites
    /\ LET r == SeqOutStreamWriter_write(call.stream, buf_len, hr, written) IN
       /\ trace' = r.events
       /\ call' = [call EXCEPT !.writes = @ + 1,
                               !.buf_len = buf_len,
                               !.answer = <<hr, written>>]
       /\ ret' = RetOf("SeqOutStreamWriter_write", IF r.ok THEN S_OK ELSE E_FAIL,
                       r.n, NULL, r.kind, <<buf_len>>)
    /\ UNCHANGED <<supports_write, pv, heap, obj, addr, handlerVars, held, stream_refs,
                   leaked, dealloc_count, wild, pw_refs, pc>>

\* SeqOutStreamWriter::new(stream) over a host output stream
InitWriter ==
    /\ supports_write = TRUE
    /\ pv = RawPropVariant_default
    /\ heap = EmptyHeap
    /\ obj = "alive"
    /\ addr \in Addrs
    /\ ref_count = fetch_add(create_handler.ref_count)
    /\ in_stream = NULL
    /\ archive_size = create_handler.archive_size
    /\ is_open = FALSE
    /\ inner = create_handler.inner
    /\ held = [k \in PtrKinds |-> 1]
    /\ stream_refs = [s \in Streams |-> 0]
    /\ leaked = 0
    /\ dealloc_count = 0
    /\ wild = FALSE
    /\ pw_refs = 0
    /\ pc = "idle"
    /\ call = [op |-> "writer", stream |-> 7, writes |-> 0, buf_len |-> 0, answer |-> <<>>]
    /\ trace = <<>>
    /\ ret = Ret("init", NO_HR, 0, NULL)

NextWriter ==
    \E buf_len \in BufLens, hr \in WriteStatuses, written \in WrittenCounts :
        WriterWrite(buf_len, hr, written)

SpecWriter == InitWriter /\ [][NextWriter]_vars

\* ------------------------------------------------------------------------
\* Specification: password queries through the two capability wrappers
\* ------------------------------------------------------------------------
\* most queries in one behaviour
MaxQueries == 2

\* UTF-16: the surrogate ranges and the replacement character
HIGH_SURROGATE_MIN == 55296
LOW_SURROGATE_MIN == 56320
LOW_SURROGATE_MAX == 57343
REPLACEMENT_CHARACTER == 65533
SUPPLEMENTARY_MIN == 65536

is_high_surrogate(u) == u >= HIGH_SURROGATE_MIN /\ u < LOW_SURROGATE_MIN

is_low_surrogate(u) == u >= LOW_SURROGATE_MIN /\ u <= LOW_SURROGATE_MAX

\* BSTR::to_string: the units decoded as UTF-16 into characters (code points),
\* a surrogate pair into one character and an unpaired surrogate into U+FFFD
RECURSIVE bstr_to_string(_)
bstr_to_string(units) ==
    IF units = <<>> THEN <<>>
    ELSE IF /\ is_high_surrogate(units[1])
            /\ Len(units) >= 2
            /\ is_low_surrogate(units[2])
    THEN <<SUPPLEMENTARY_MIN + (units[1] - HIGH_SURROGATE_MIN) * 1024
                             + (units[2] - LOW_SURROGATE_MIN)>>
         \o bstr_to_string(SubSeq(units, 3, Len(units)))
    ELSE IF is_high_surrogate(units[1]) \/ is_low_surrogate(units[1])
    THEN <<REPLACEMENT_CHARACTER>> \o bstr_to_string(Tail(units))
    ELSE <<units[1]>> \o bstr_to_string(Tail(units))

\* a host string: the null pointer, or a BSTR with these units
NullBstr == "null"

\* PasswordRequesterWrapper::get_password (328-354): the host's
\* CryptoGetTextPassword answered hr and the string `password`.  The result is
\* always Ok; its Option<String> is returned.
requester_get_password(hr, password) ==
    IF is_err(hr) THEN None
    ELSE IF password = NullBstr THEN Some(<<>>)
    ELSE Some(bstr_to_string(password))

\* PasswordProviderWrapper::get_password without the test of password_is_defined
provider_get_password_any(hr, password_is_defined, password) ==
    IF is_err(hr) THEN None
    ELSE IF password = NullBstr THEN Some(<<>>)
    ELSE Some(bstr_to_string(password))

\* PasswordProviderWrapper::get_password (399-430): the host's
\* CryptoGetTextPassword2 answered hr, password_is_defined and `password`
provider_get_password(hr, password_is_defined, password) ==
    IF is_err(hr) THEN None
    ELSE IF password_is_defined = 0 THEN None
    ELSE IF password = NullBstr THEN Some(<<>>)
    ELSE Some(bstr_to_string(password))

\* the strings the host supplies: none, the empty string, plain text, a
\* surrogate pair, and unpaired surrogates
HostPasswords == {NullBstr, <<>>, <<97>>, <<97, 98>>, <<55357, 56832>>, <<55357>>, <<56832, 97>>}

\* the statuses of the host's capability (E_ABORT: the user cancelled)
PasswordStatuses == {S_OK, S_FALSE, E_FAIL, E_ABORT}

\* the values the host stores in password_is_defined (an i32)
DefinedValues == {0, 1, -1}

\* a format asks the requester for the decryption password
RequesterGetPassword(hr, password) ==
    /\ call.op = "passwords"
    /\ call.queries < MaxQueries
    /\ trace' = <<Ev("crypto_get_text_password", 0)>>
    /\ call' = [call EXCEPT !.queries = @ + 1, !.answer = <<hr, 1, password>>]
    /\ ret' = RetOf("requester_get_password", S_OK, requester_get_password(hr, password),
                    NULL, "-", <<>>)
    /\ UNCHANGED <<supports_write, pv, heap, obj, addr, handlerVars, held, stream_refs,
                   leaked, dealloc_count, wild, pw_refs, pc>>

\* a format asks the provider for the encryption password
ProviderGetPassword(hr, password_is_defined, password) ==
    /\ call.op = "passwords"
    /\ call.queries < MaxQueries
    /\ trace' = <<Ev("crypto_get_text_password2", 0)>>
    /\ call' = [call EXCEPT !.queries = @ + 1,
                            !.answer = <<hr, password_is_defined, password>>]
    /\ ret' = RetOf("provider_get_password", S_OK,
                    provider_get_password(hr, password_is_defined, password),
                    NULL, "-", <<>>)
    /\ UNCHANGED <<supports_write, pv, heap, obj, addr, handlerVars, held, stream_refs,
                   leaked, dealloc_count, wild, pw_refs, pc>>

\* both wrappers exist over a callback with the capabilities
InitPassword ==
    /\ supports_write = TRUE
    /\ pv = RawPropVariant_default
    /\ heap = EmptyHeap
    /\ obj = "alive"
    /\ addr \in Addrs
    /\ ref_count = fetch_add(create_handler.ref_count)
    /\ in_stream = NULL
    /\ archive_size = create_handler.archive_size
    /\ is_open = FALSE
    /\ inner = create_handler.inner
    /\ held = [k \in PtrKinds |-> 1]
    /\ stream_refs = [s \in Streams |-> 0]
    /\ leaked = 0
    /\ dealloc_count = 0
    /\ wild = FALSE
    /\ pw_refs = 1
    /\ pc = "idle"
    /\ call = [op |-> "passwords", queries |-> 0, answer |-> <<>>]
    /\ trace = <<>>
    /\ ret = Ret("init", NO_HR, 0, NULL)

NextPassword ==
    \/ \E hr \in PasswordStatuses, password \in HostPasswords :
           RequesterGetPassword(hr, password)
    \/ \E hr \in PasswordStatuses, d \in DefinedValues, password \in HostPasswords :
           ProviderGetPassword(hr, d, password)

SpecPassword == InitPassword /\ [][NextPassword]_vars

\* ------------------------------------------------------------------------
\* Specification: open, extract and update_items calls with every kind of
\* callback, on one object of a format with write support: opens, then one
\* extract or update_items call followed to its return
\* ------------------------------------------------------------------------
\* the index lists of this specification
CallIndexLists == {<<>>, <<0>>, <<1, 0>>}

NextCalls ==
    \/ /\ call = NoCall
       /\ \E s \in {NULL, 1}, cb \in Callbacks, a \in OpenAnswers :
            Open(s, cb, a[1], a[2], StreamSize(s), a[3], StreamItems(s))
    \/ /\ call = NoCall
       /\ \E idx \in CallIndexLists, t \in {0, 1}, cb \in Callbacks :
            ExtractBegin(idx, Len(idx), t, cb)
    \/ /\ call = NoCall
       /\ \E cb \in Callbacks : ExtractBegin(<<>>, ALL_ITEMS, 0, cb)
    \/ \E a \in ExtractAnswers : ExtractItem(a[1], a[2], a[3], a[4])
    \/ ExtractReturn
    \/ /\ call = NoCall
       /\ \E o \in OutStreams, cb \in Callbacks, sl \in LifeUpdates :
            UpdateItemsBegin(o, cb, sl)
    \/ \E ok \in BOOLEAN : UpdatePass1(ok)
    \/ UpdateSetTotal
    \/ \E a \in Pass2Answers : UpdatePass2(a[1], a[2], a[3], a[4], a[5], a[6])
    \/ \E a \in WriteAnswers, r \in LifeReports : UpdateWrite(a[1], a[2], r, a[3])

SpecCalls == InitUpdate /\ [][NextCalls]_vars

\* ------------------------------------------------------------------------
\* Specification: the life of one object of a format registered without the
\* `updatable` flag (create_out_vtable_stub)
\* ------------------------------------------------------------------------
update_items_stub_checked(out_stream, num_items, update_callback) ==
    IF out_stream = NULL \/ update_callback = "null" THEN E_INVALIDARG ELSE E_NOTIMPL

\* update_items_stub (1231-1238): the status it returns; it looks at none of
\* its arguments
update_items_stub(out_stream, num_items, update_callback) == E_NOTIMPL

\* IOutArchive::update_items of create_out_vtable_stub (1267-1278), called
\* through an IOutArchive pointer the host holds
UpdateItemsStub(out_stream, cb, slots) ==
    /\ HostHolds("out")
    /\ trace' = <<>>
    /\ ret' = RetOf("update_items", update_items_stub(out_stream, Len(slots), cb), 0, NULL,
                    "out", <<out_stream, cb, slots>>)
    /\ UNCHANGED <<supports_write, pv, heap, obj, addr, handlerVars, held, stream_refs,
                   leaked, dealloc_count, wild, pw_refs, pc, call>>

\* T::supports_write() is the format's own answer and either value goes with
\* this registration; the host gets an IOutArchive pointer when it is true
NextStub ==
    \/ \E c \in CLSIDs, i \in IIDs, ok \in BOOLEAN : CreateObject(c, i, ok)
    \/ \E k \in PtrKinds, i \in IIDs, ok \in BOOLEAN : QueryInterface(k, i, ok)
    \/ \E k \in PtrKinds : AddRef(k)
    \/ \E k \in PtrKinds : Release(k)
    \/ \E s \in Streams \cup {NULL}, cb \in Callbacks, a \in OpenAnswers :
            Open(s, cb, a[1], a[2], StreamSize(s), a[3], StreamItems(s))
    \/ Close
    \/ \E o \in OutStreams, cb \in {"null", "plain", "crypto"}, sl \in LifeUpdates :
            UpdateItemsStub(o, cb, sl)

SpecStub == Init /\ [][NextStub]_vars

\* ------------------------------------------------------------------------
\* Specification: open, close and update_items with the archive properties
\* read in between
\* ------------------------------------------------------------------------
\* the answers of the format's physical_size()
PhysicalSizes == {[some |-> FALSE], [some |-> TRUE, value |-> 0], [some |-> TRUE, value |-> 5]}

NextArchiveSize ==
    \/ \E s \in {NULL, 1}, a \in OpenAnswers :
            Open(s, "null", a[1], a[2], StreamSize(s), a[3], StreamItems(s))
    \/ Close
    \/ \E p \in {ArchivePropId_PhySize, PropId_Other}, ok \in BOOLEAN, phys \in PhysicalSizes :
            GetArchiveProperty(p, ok, phys)
    \/ \E o \in OutStreams, cb \in {"null", "plain"}, sl \in {<<>>, <<CopyOf(0)>>} :
            UpdateItemsBegin(o, cb, sl)
    \/ \E ok \in BOOLEAN : UpdatePass1(ok)
    \/ UpdateSetTotal
    \/ \E a \in Pass2Answers : UpdatePass2(a[1], a[2], a[3], a[4], a[5], a[6])
    \/ \E a \in WriteAnswers : UpdateWrite(a[1], a[2], <<>>, a[3])

SpecArchiveSize == InitUpdate /\ [][NextArchiveSize]_vars

\* ------------------------------------------------------------------------
\* Specification: one extract call with a host that answers any status to
\* every callback method
\* ------------------------------------------------------------------------
\* What the host and the format answer in one iteration: <<status of get_stream,
\* the stream supplied, the format's extraction succeeds, statuses of
\* prepare_operation, set_operation_result and set_completed>>
ExtractStatusAnswers ==
    {<<g, NULL, TRUE, S_OK, S_OK, S_OK>> : g \in HostStatuses \ {S_OK}}
    \cup {<<S_OK, 7, TRUE, p, r, c>> : p \in {S_OK, E_FAIL}, r \in HostStatuses,
                                        c \in {S_OK, E_ABORT}}
    \cup {<<S_OK, o[1], o[2], E_FAIL, S_OK, E_ABORT>> : o \in {<<NULL, TRUE>>, <<7, FALSE>>}}

NextExtractStatus ==
    \/ /\ call = NoCall
       /\ \E idx \in CallIndexLists, h \in HostStatuses :
            ExtractStart(idx, Len(idx), 0, "plain", h)
    \/ /\ call = NoCall
       /\ \E t \in {0, 1}, cb \in {"null", "crypto"}, h \in HostStatuses :
            ExtractStart(<<>>, ALL_ITEMS, t, cb, h)
    \/ \E a \in ExtractStatusAnswers : ExtractStep(a[1], a[2], a[3], a[4], a[5], a[6])
    \/ ExtractReturn

SpecExtractStatus == InitExtract /\ [][NextExtractStatus]_vars

\* ========================================================================
\* Properties
\* ========================================================================
HeldTotal == held["in"] + held["out"]

\* The value of the last event called `name` in t (-1 when absent)
LastEvArg(t, name) ==
    IF \E i \in 1..Len(t) : t[i][1] = name
    THEN t[CHOOSE i \in 1..Len(t) : t[i][1] = name /\ \A j \in (i+1)..Len(t) : t[j][1] # name][2]
    ELSE 0 - 1

\* ------------------------------------------------------------------------
\* C1: an object is created with count 1; under any interleaving of add_ref and
\* release in which the host never releases a reference it does not hold, the
\* stored count equals the references outstanding, the object is alive while
\* any reference is outstanding, and it is destroyed exactly once, by the
\* release whose returned count is zero.
C1_DestroyedOnceAtZero ==
    /\ ~wild
    /\ dealloc_count <= 1
    /\ obj = "alive" => (HeldTotal > 0 /\ ref_count = HeldTotal /\ dealloc_count = 0)
    /\ obj = "freed" => (HeldTotal = 0 /\ ref_count = 0 /\ dealloc_count = 1)
    /\ ret.op = "release" => ((ret.val = 0) <=> (CountEv(trace, "dealloc") = 1))
    /\ ret.op = "release" => ((ret.val = 0) <=> (obj = "freed"))
    /\ ret.op # "release" => CountEv(trace, "dealloc") = 0

\* the last of the outstanding references was released and the object is gone
C1_Witness ==
    /\ ret.op = "release"
    /\ ret.val = 0
    /\ obj = "freed"
    /\ dealloc_count = 1

\* ------------------------------------------------------------------------
\* C2: with threads calling add_ref, query_interface and release concurrently,
\* each through a reference it owns, the stored count always equals the
\* references owned; at most one release observes zero, the object is dropped at
\* most once, never while a reference is owned, no thread touches it after
\* the drop, and it is dropped once every reference is released.
C2_ConcurrentRelease ==
    /\ ~wild
    /\ dealloc_count <= 1
    /\ CountEv(trace, "dealloc") <= 1
    /\ ref_count = SumOwned(MaxThreads)
    /\ Cardinality({t \in Threads : call[t].pc = "released" /\ call[t].count = 0}) <= 1
    /\ obj = "freed" => (SumOwned(MaxThreads) = 0 /\ dealloc_count = 1)
    /\ (SumOwned(MaxThreads) = 0 /\ \A t \in Threads : call[t].pc = "idle")
            => (obj = "freed" /\ dealloc_count = 1)

\* one thread destroyed the object while another is still between its
\* fetch_sub (which returned a non-zero count) and its return
C2_Witness ==
    /\ obj = "freed"
    /\ dealloc_count = 1
    /\ \E t \in Threads : call[t].pc = "released" /\ call[t].count > 0

\* ------------------------------------------------------------------------
\* C3: the release that returns zero, and no other call, releases the held
\* input stream exactly once (nothing when none is held), then invokes the
\* format's close, then frees the object; a release returning a non-zero count
\* does none of these.
C3_ReleaseStep ==
    /\ (ret'.op = "release" /\ ret'.val = 0) =>
          /\ trace' = (IF in_stream # NULL THEN <<Ev("stream_release", in_stream)>> ELSE <<>>)
                        \o <<Ev("inner_close", 0), Ev("dealloc", 0)>>
          /\ in_stream # NULL => stream_refs'[in_stream] = stream_refs[in_stream] - 1
          /\ obj' = "freed"
    /\ (ret'.op = "release" /\ ret'.val # 0) =>
          /\ trace' = <<>>
          /\ obj' = obj
          /\ in_stream' = in_stream
          /\ stream_refs' = stream_refs
    /\ ret'.op # "release" =>
          (CountEv(trace', "dealloc") = 0 /\ (obj' = "freed" => obj = "freed"))

C3_DestructionOrder == [][C3_ReleaseStep]_vars

\* the final release of an object that holds a stream
C3_Witness ==
    /\ ret.op = "release"
    /\ ret.val = 0
    /\ \E s \in Streams :
          trace = <<Ev("stream_release", s), Ev("inner_close", 0), Ev("dealloc", 0)>>

\* ------------------------------------------------------------------------
\* C4: query_interface with a non-null result slot succeeds exactly for
\* IUnknown, IInArchive and, on a format with write support, IOutArchive; on
\* success the count grows by one and the pointer is not null; otherwise it
\* returns E_NOINTERFACE, a null pointer and leaves the count as it was.
C4_QueryStep ==
    (ret'.op = "query_interface" /\ ret'.hr # E_POINTER) =>
        IF \/ ret'.arg \in {IID_IUNKNOWN, IID_IINARCHIVE}
           \/ (ret'.arg = IID_IOUTARCHIVE /\ supports_write)
        THEN /\ ret'.hr = S_OK
             /\ ret'.ptr # NULL
             /\ ref_count' = ref_count + 1
             /\ ret'.val = ref_count'
        ELSE /\ ret'.hr = E_NOINTERFACE
             /\ ret'.ptr = NULL
             /\ ref_count' = ref_count

C4_QueryInterface == [][C4_QueryStep]_vars

\* IOutArchive was refused on a format without write support
C4_Witness ==
    /\ ret.op = "query_interface"
    /\ ret.arg = IID_IOUTARCHIVE
    /\ ~supports_write
    /\ ret.hr = E_NOINTERFACE
    /\ ret.ptr = NULL

\* ------------------------------------------------------------------------
\* C5: the pointer handed out for IOutArchive is the address of the out_vtbl
\* field, subtracting the field offset from it gives the handler, and
\* query_interface, add_ref and release through the write pointer act on the
\* handler's one count and return what they return through the read pointer.
C5_PointerState ==
    /\ ~wild
    /\ (ret.op \in {"query_interface", "create_object"} /\ ret.hr = S_OK) =>
          IF (IF ret.op = "create_object" THEN ret.arg[2] ELSE ret.arg) = IID_IOUTARCHIVE
          THEN /\ ret.ptr = addr + OutVtblOffset
               /\ out_vtbl_to_handler(ret.ptr) = addr
          ELSE ret.ptr = addr

C5_OutStep ==
    (ret'.via = "out" /\ ret'.op \in {"query_interface", "add_ref", "release"}) =>
        /\ addr' = addr
        /\ ret'.op = "add_ref" => (ref_count' = ref_count + 1 /\ ret'.val = ref_count')
        /\ ret'.op = "release" => (ref_count' = ref_count - 1 /\ ret'.val = ref_count')
        /\ (ret'.op = "query_interface" /\ ret'.hr = S_OK) =>
              (ref_count' = ref_count + 1 /\ ret'.val = ref_count')
        /\ (ret'.op = "query_interface" /\ ret'.hr # S_OK) => ref_count' = ref_count

C5_DualInterface == []C5_PointerState /\ [][C5_OutStep]_vars

\* IOutArchive was queried through the write pointer itself
C5_Witness ==
    /\ ret.op = "query_interface"
    /\ ret.via = "out"
    /\ ret.arg = IID_IOUTARCHIVE
    /\ ret.hr = S_OK
    /\ ret.ptr = addr + OutVtblOffset
    /\ ref_count = 2

\* ------------------------------------------------------------------------
\* C6: create_object with non-null pointer arguments returns S_OK and a fresh
\* object (count 1, closed, no stream, archive size 0) exactly when the class
\* identifier is the format's and the interface is IInArchive, or IOutArchive
\* on a format with write support; otherwise it returns
\* CLASS_E_CLASSNOTAVAILABLE and a null object.
C6_CreateObject ==
    (ret.op = "create_object" /\ ret.arg[3]) =>
        IF /\ ret.arg[1] = FormatClsid
           /\ \/ ret.arg[2] = IID_IINARCHIVE
              \/ (ret.arg[2] = IID_IOUTARCHIVE /\ supports_write)
        THEN /\ ret.hr = S_OK
             /\ ret.ptr # NULL
             /\ obj = "alive"
             /\ ref_count = 1
             /\ ~is_open
             /\ in_stream = NULL
             /\ archive_size = 0
             /\ HeldTotal = 1
        ELSE /\ ret.hr = CLASS_E_CLASSNOTAVAILABLE
             /\ ret.ptr = NULL

\* a second object was created after the first was destroyed
C6_Witness ==
    /\ ret.op = "create_object"
    /\ ret.hr = S_OK
    /\ ret.arg[2] = IID_IOUTARCHIVE
    /\ ref_count = 1
    /\ obj = "alive"

\* ------------------------------------------------------------------------
\* C7: the bridge holds exactly one reference on the attached stream and none
\* on any other: a successful open adds one reference, a failed open adds
\* none, and every detach (close, re-open, update_items, final release) gives
\* back the one reference that was added.
C7_StreamRefs ==
    /\ \A s \in Streams : stream_refs[s] = (IF in_stream = s THEN 1 ELSE 0)
    /\ ret.op = "open" =>
          CountEv(trace, "stream_add_ref") = (IF ret.hr = S_OK THEN 1 ELSE 0)
    /\ ret.op # "open" => CountEv(trace, "stream_add_ref") = 0
    /\ CountEv(trace, "stream_release") <= 1

\* an open on an object that already held a stream: the old one was released,
\* the new one is held
C7_Witness ==
    /\ ret.op = "open"
    /\ ret.hr = S_OK
    /\ CountEv(trace, "stream_release") = 1
    /\ CountEv(trace, "stream_add_ref") = 1
    /\ in_stream # NULL
    /\ stream_refs[in_stream] = 1

\* ------------------------------------------------------------------------
\* C8: on an object that is not open, get_property does not report item data
\* of a previously opened archive.
C8_ClosedReportsNothing ==
    (ret.op = "get_property" /\ ~is_open) => ~(ret.hr = S_OK /\ ret.vt # VT_EMPTY)

\* ------------------------------------------------------------------------
\* C9: whenever update_items returns after its argument check passed, the
\* format's close was invoked once, the stream that was held was released
\* exactly once (none when none was held), and the object is closed with no
\* stream.
C9_UpdateCleanup ==
    (pc = "idle" /\ ret.op = "update_items" /\ ret.hr # E_INVALIDARG) =>
        /\ CountEv(trace, "inner_close") = 1
        /\ CountEv(trace, "stream_release") = (IF call.had_stream # NULL THEN 1 ELSE 0)
        /\ \A s \in Streams : stream_refs[s] = 0
        /\ ~is_open
        /\ in_stream = NULL

\* update_items failed on an object that held a stream
C9_Witness ==
    /\ pc = "idle"
    /\ ret.op = "update_items"
    /\ ret.hr \notin {S_OK, E_INVALIDARG}
    /\ call.had_stream # NULL
    /\ CountEv(trace, "stream_release") = 1
    /\ in_stream = NULL

\* ------------------------------------------------------------------------
\* C10: extract with the all-items sentinel over an archive of n items, with a
\* host that accepts every call, reports a total equal to the sum of the n
\* declared sizes, signals exactly n per-item results, and the last completed
\* value it reports equals the total.
C10_ExtractAll ==
    (pc = "idle" /\ ret.op = "extract" /\ ret.hr = S_OK /\ ret.arg[2] = ALL_ITEMS) =>
        /\ CountEv(trace, "set_total") = 1
        /\ LastEvArg(trace, "set_total") = SumSeq(inner)
        /\ CountEv(trace, "set_operation_result") = Len(inner)
        /\ CountEv(trace, "set_completed") = Len(inner)
        /\ Len(inner) > 0 => LastEvArg(trace, "set_completed") = SumSeq(inner)
        /\ ret.val = SumSeq(inner)

\* every item of a full archive was extracted
C10_Witness ==
    /\ pc = "idle"
    /\ ret.op = "extract"
    /\ ret.hr = S_OK
    /\ ret.arg[2] = ALL_ITEMS
    /\ Len(inner) = MaxItems
    /\ CountEv(trace, "set_operation_result") = MaxItems
    /\ LastEvArg(trace, "set_completed") = SumSeq(inner)

\* ------------------------------------------------------------------------
\* Reading a finished extract call: call.answers are the host's and the
\* format's answers per iteration, trace the calls extract made
ExtractDone == pc = "idle" /\ call.op = "extract_done"

\* hr is one of the failure statuses the host returns
HostFailed(hr) == hr \in {E_FAIL, E_ABORT}

\* The arguments of the events called `name` in t, in order
EvArgs(t, name) ==
    LET sel == SelectSeq(t, LAMBDA e : e[1] = name) IN
    [k \in 1..Len(sel) |-> sel[k][2]]

\* The host accepted every get_stream and every set_operation_result
HostAccepts ==
    \A k \in 1..Len(call.answers) :
        ~HostFailed(call.answers[k].gs_hr) /\ ~HostFailed(call.answers[k].res_hr)

\* The format's extraction was asked to run for answer a and failed
ExtractionFailed(a) == call.test_mode = 0 /\ a.out_stream # NULL /\ ~a.extract_ok

\* The indices of the call that exist in the archive, in the order given
ExistingIndices ==
    LET given == IF ret.arg[2] = ALL_ITEMS THEN [k \in 1..Len(inner) |-> k - 1]
                 ELSE ret.arg[1] IN
    SelectSeq(given, LAMBDA i : i + 1 \in 1..Len(inner))

\* ------------------------------------------------------------------------
\* C11: when the host accepts every step, a failure of the format's extraction
\* for an item is signalled as data-error for that item only; every index is
\* still processed and signalled (ok when its extraction succeeds or is
\* skipped), and extract returns S_OK.
C11_ItemFailureContinues ==
    (ExtractDone /\ HostAccepts) =>
        /\ ret.hr = S_OK
        /\ [k \in 1..Len(call.answers) |-> call.answers[k].index] = ExistingIndices
        /\ EvArgs(trace, "set_operation_result") =
              [k \in 1..Len(call.answers) |->
                  IF ExtractionFailed(call.answers[k]) THEN NRESULT_DATA_ERROR
                  ELSE NRESULT_OK]

\* the first item's extraction failed, the next one was extracted, S_OK returned
C11_Witness ==
    /\ ExtractDone
    /\ ret.hr = S_OK
    /\ Len(call.answers) >= 2
    /\ ExtractionFailed(call.answers[1])
    /\ ~ExtractionFailed(call.answers[2])
    /\ call.answers[2].out_stream # NULL
    /\ call.test_mode = 0
    /\ EvArgs(trace, "set_operation_result")[1] = NRESULT_DATA_ERROR
    /\ EvArgs(trace, "set_operation_result")[2] = NRESULT_OK

\* ------------------------------------------------------------------------
\* C12: when get_stream returns a failure status for an item, extract returns
\* exactly that status at once: the format's extraction is not invoked for the
\* item, no result is signalled for it, no completed value is reported for it
\* and no later index is processed.
C12_GetStreamFailure ==
    ExtractDone =>
        \A k \in 1..Len(call.answers) :
            HostFailed(call.answers[k].gs_hr) =>
                /\ k = Len(call.answers)
                /\ ret.hr = call.answers[k].gs_hr
                /\ CountEv(trace, "get_stream") = k
                /\ CountEv(trace, "prepare_operation") = k - 1
                /\ CountEv(trace, "set_operation_result") = k - 1
                /\ CountEv(trace, "set_completed") = k - 1
                /\ CountEv(trace, "inner_extract") <= k - 1
                /\ CountEv(trace, "out_release") <= k - 1

\* the second item's stream request failed with E_ABORT
C12_Witness ==
    /\ ExtractDone
    /\ Len(call.answers) = 2
    /\ Len(call.idx) >= 2
    /\ call.answers[2].gs_hr = E_ABORT
    /\ ret.hr = E_ABORT
    /\ CountEv(trace, "set_operation_result") = 1

\* ------------------------------------------------------------------------
\* C13: the calls extract makes on the host and the format are, per processed
\* index and in the order the indices were given: get_stream,
\* prepare_operation, the format's extraction (only when it runs), release of
\* the output stream (exactly when the host supplied one, also in test mode
\* and when extraction failed), set_operation_result, set_completed with the
\* completed bytes advanced by the item's declared size.
ItemCalls(k) ==
    LET a == call.answers[k]
        done == SumSeq([j \in 1..k |-> inner[call.answers[j].index + 1]]) IN
    <<Ev("get_stream", a.index)>>
    \o (IF HostFailed(a.gs_hr) THEN <<>>
        ELSE <<Ev("prepare_operation", NASK_EXTRACT)>>
             \o (IF call.test_mode = 0 /\ a.out_stream # NULL
                 THEN <<Ev("inner_extract", a.index)>> ELSE <<>>)
             \o (IF a.out_stream # NULL THEN <<Ev("out_release", a.index)>> ELSE <<>>)
             \o <<Ev("set_operation_result",
                     IF ExtractionFailed(a) THEN NRESULT_DATA_ERROR ELSE NRESULT_OK)>>
             \o (IF HostFailed(a.res_hr) THEN <<>> ELSE <<Ev("set_completed", done)>>))

RECURSIVE CallsUpTo(_)
CallsUpTo(k) == IF k = 0 THEN <<>> ELSE CallsUpTo(k - 1) \o ItemCalls(k)

ItemEventNames == {"get_stream", "prepare_operation", "inner_extract", "out_release",
                   "set_operation_result", "set_completed"}

C13_ItemCallOrder ==
    ExtractDone =>
        /\ SelectSeq(trace, LAMBDA e : e[1] \in ItemEventNames) = CallsUpTo(Len(call.answers))
        /\ \A k \in 1..Len(call.answers) : call.answers[k].index = ExistingIndices[k]

\* two items in test mode, the host supplied a stream for both: each released once
C13_Witness ==
    /\ ExtractDone
    /\ ret.hr = S_OK
    /\ call.test_mode = 1
    /\ Len(call.answers) = 2
    /\ \A k \in 1..2 : call.answers[k].out_stream # NULL
    /\ CountEv(trace, "out_release") = 2
    /\ CountEv(trace, "inner_extract") = 0

\* ------------------------------------------------------------------------
\* C14: in test mode, or for an item the host supplied no output stream for,
\* the format's extraction is not invoked and the item's result is signalled
\* as ok.
C14_SkippedExtraction ==
    ExtractDone =>
        /\ call.test_mode # 0 => CountEv(trace, "inner_extract") = 0
        /\ CountEv(trace, "inner_extract") =
              Cardinality({k \in 1..Len(call.answers) :
                              /\ ~HostFailed(call.answers[k].gs_hr)
                              /\ call.test_mode = 0
                              /\ call.answers[k].out_stream # NULL})
        /\ \A k \in 1..Len(EvArgs(trace, "set_operation_result")) :
              (call.test_mode # 0 \/ call.answers[k].out_stream = NULL) =>
                  EvArgs(trace, "set_operation_result")[k] = NRESULT_OK

\* outside test mode the host supplied no stream for an item
C14_Witness ==
    /\ ExtractDone
    /\ call.test_mode = 0
    /\ Len(call.answers) >= 1
    /\ ~HostFailed(call.answers[1].gs_hr)
    /\ call.answers[1].out_stream = NULL
    /\ CountEv(trace, "inner_extract") = 0
    /\ EvArgs(trace, "set_operation_result")[1] = NRESULT_OK

\* ------------------------------------------------------------------------
\* Reading an update_items call: call.slots is the host's update list,
\* call.answers the stream answers per new-file slot, call.updates the
\* descriptor list, call.write how the write phase ended
UpdateCall == call.op \in {"update_items", "update_items_done"}

UpdateDone == pc = "idle" /\ call.op = "update_items_done"

\* the collection pass ran over every slot
WriteReached == UpdateDone /\ call.write # "none"

\* the size a slot declares: the size property of a new-data slot when it is an
\* unsigned value, the size of the item a copy slot names when the archive has it
DeclaredSize(sl) ==
    IF sl.new_data THEN (IF sl.size_vt \in {VT_UI8, VT_UI4} THEN sl.size ELSE 0)
    ELSE IF sl.index_in_archive # U32_MAX /\ sl.index_in_archive + 1 \in 1..Len(inner)
    THEN inner[sl.index_in_archive + 1]
    ELSE 0

\* ------------------------------------------------------------------------
\* C15: update_items reports its total at most once and, once the sizing pass
\* is over, exactly once; the value is the sum over the slots of the declared
\* size (size property for new data, the referenced item's size for a copy, 0
\* for deletions, missing sizes and missing items); the report precedes every
\* input stream request, every read, every per-item result and the format's
\* update.
C15_TotalReportedFirst ==
    UpdateCall =>
        /\ CountEv(trace, "set_total") <= 1
        /\ (pc = "update_pass2" \/ call.write # "none") =>
              /\ CountEv(trace, "set_total") = 1
              /\ LastEvArg(trace, "set_total") =
                    SumSeq([k \in 1..Len(call.slots) |-> DeclaredSize(call.slots[k])])
        /\ \A i \in 1..Len(trace) :
              trace[i][1] \in {"get_stream", "in_read", "in_release", "set_operation_result",
                               "inner_update", "set_completed"}
                  => FirstEv(trace, "set_total") \in 1..(i - 1)

\* one new file and one copy of an existing item: the total is both sizes
C15_Witness ==
    /\ WriteReached
    /\ Len(call.slots) = 2
    /\ call.slots[1].new_data /\ ~call.slots[1].is_dir /\ call.slots[1].size > 0
    /\ ~call.slots[2].new_data
    /\ call.slots[2].index_in_archive # U32_MAX
    /\ call.slots[2].index_in_archive + 1 \in 1..Len(inner)
    /\ LastEvArg(trace, "set_total") =
          call.slots[1].size + inner[call.slots[2].index_in_archive + 1]
    /\ CountEv(trace, "inner_update") = 1

\* ------------------------------------------------------------------------
\* C16: the descriptor list handed to the format's update holds, in slot
\* order, one AddNew per new-data slot that is not a directory, one
\* CopyExisting carrying the index as given per slot without new data that
\* names an index of the existing archive (index_in_archive is not the "none"
\* value), and nothing for deletions and for new-data directories.
RECURSIVE ExpectedDescriptors(_)
ExpectedDescriptors(k) ==
    IF k = 0 THEN <<>>
    ELSE LET sl == call.slots[k] IN
         ExpectedDescriptors(k - 1)
         \o (IF sl.new_data /\ ~sl.is_dir THEN << <<"AddNew", k - 1>> >>
             ELSE IF ~sl.new_data /\ sl.index_in_archive # U32_MAX
             THEN << <<"CopyExisting", sl.index_in_archive>> >>
             ELSE <<>>)

C16_DescriptorList ==
    (UpdateDone /\ CountEv(trace, "inner_update") > 0) =>
        /\ CountEv(trace, "inner_update") = 1
        /\ [j \in 1..Len(call.updates) |-> <<call.updates[j].kind, call.updates[j].ref>>]
              = ExpectedDescriptors(Len(call.slots))
        /\ LastEvArg(trace, "inner_update") = Len(call.updates)
        /\ \A j \in 1..Len(call.updates) :
              call.updates[j].kind = "CopyExisting" => call.updates[j].data = <<>>

\* a copy and a new file, in that order
C16_Witness ==
    /\ UpdateDone
    /\ CountEv(trace, "inner_update") = 1
    /\ Len(call.updates) = 2
    /\ call.updates[1].kind = "CopyExisting"
    /\ call.updates[1].ref = call.slots[1].index_in_archive
    /\ call.updates[2].kind = "AddNew"

\* ------------------------------------------------------------------------
\* C17: an update over num_items slots that reaches the write phase has
\* signalled exactly num_items per-item results, one per slot whatever its kind.
C17_ResultPerSlot ==
    WriteReached => CountEv(trace, "set_operation_result") = Len(call.slots)

\* ------------------------------------------------------------------------
\* C18: every new-file slot yields one AddNew descriptor; when the host
\* supplied a stream and its reads ended with a zero-length read, the
\* descriptor's content is the concatenation of the chunks read (empty when no
\* stream was supplied); a supplied stream is released exactly once, right
\* after its last read and before a later slot is queried.
RECURSIVE Flatten(_)
Flatten(chunks) ==
    IF Len(chunks) = 0 THEN <<>>
    ELSE Flatten(SubSeq(chunks, 1, Len(chunks) - 1)) \o chunks[Len(chunks)]

RECURSIVE ExpectedStreamCalls(_)
ExpectedStreamCalls(j) ==
    IF j = 0 THEN <<>>
    ELSE LET a == call.answers[j] IN
         ExpectedStreamCalls(j - 1)
         \o (IF a.given
             THEN [n \in 1..(Len(a.chunks) + 1) |-> "in_read"] \o <<"in_release">>
             ELSE <<>>)

C18_AddNewContent ==
    UpdateCall =>
        LET adds == SelectSeq(call.updates, LAMBDA u : u.kind = "AddNew")
            calls == SelectSeq(trace, LAMBDA e : e[1] \in {"in_read", "in_release"}) IN
        /\ Len(adds) = Len(call.answers)
        /\ \A j \in 1..Len(adds) :
              /\ adds[j].ref = call.answers[j].slot
              /\ (call.answers[j].given /\ ~call.answers[j].fault)
                    => adds[j].data = Flatten(call.answers[j].chunks)
              /\ ~call.answers[j].given => adds[j].data = <<>>
        /\ [n \in 1..Len(calls) |-> calls[n][1]] = ExpectedStreamCalls(Len(call.answers))
        /\ EvArgs(trace, "in_release") =
              LET given == SelectSeq(call.answers, LAMBDA a : a.given) IN
              [n \in 1..Len(given) |-> given[n].slot]
        /\ \A i \in 1..Len(trace), j \in 1..Len(trace) :
              (/\ trace[i][1] = "in_release"
               /\ trace[j][1] = "get_update_item_info"
               /\ trace[j][2] > trace[i][2]
               /\ j > FirstEv(trace, "set_total")) => j > i

\* a stream that returned two chunks: both are in the descriptor, one release
C18_Witness ==
    /\ UpdateDone
    /\ Len(call.answers) >= 1
    /\ call.answers[1].given
    /\ ~call.answers[1].fault
    /\ Len(call.answers[1].chunks) = 2
    /\ call.updates[1].kind = "AddNew"
    /\ call.updates[1].data = <<1, 2>>
    /\ CountEv(trace, "in_release") = 1

\* ------------------------------------------------------------------------
\* C19: when a read on a new item's input stream fails, update_items reports a
\* failure for the call and the format's update is not run on a descriptor
\* with missing content.
C19_ReadFaultFails ==
    (UpdateDone /\ \E j \in 1..Len(call.answers) :
                      call.answers[j].given /\ call.answers[j].fault) =>
        /\ ret.hr # S_OK
        /\ CountEv(trace, "inner_update") = 0

\* ------------------------------------------------------------------------
\* C20 (as stated): when the format's update returns an error, update_items
\* returns a status other than S_OK and no completed value it reports equals
\* the declared total.
C20_NoCompletedAtTotal ==
    (UpdateDone /\ call.write = "error") =>
        /\ ret.hr # S_OK
        /\ \A n \in 1..Len(EvArgs(trace, "set_completed")) :
              EvArgs(trace, "set_completed")[n] # call.total

\* C20 (amended): when the format's update returns an error, update_items
\* returns S_FALSE, a status other than S_OK, and makes no completion report of
\* its own: the only completed values the host receives are the ones forwarded
\* for the format's own progress reports (which may equal the declared total).
C20_WriteErrorFails ==
    (UpdateDone /\ call.write = "error") =>
        /\ ret.hr = S_FALSE
        /\ ret.hr # S_OK
        /\ CountEv(trace, "set_completed") = Len(call.reported)

\* the format reported 2 of 2 and then failed: the host saw the declared total
\* as a completed value, and the call returned S_FALSE
C20_Witness ==
    /\ UpdateDone
    /\ call.write = "error"
    /\ call.total > 0
    /\ call.reported = << <<2, 2>> >>
    /\ EvArgs(trace, "set_completed") = <<call.total>>
    /\ ret.hr = S_FALSE

\* C21: when the format's update returns successfully, update_items returns
\* S_OK and the last completed value it reports to the callback is the declared
\* total, the value it passed to set_total earlier in the call, whatever
\* (completed, total) pairs the format reported during the write phase: the host
\* receives one completed value per report of the format and then the total.
C21_CompletionAtTotal ==
    (UpdateDone /\ call.write = "ok") =>
        /\ ret.hr = S_OK
        /\ CountEv(trace, "set_total") = 1
        /\ CountEv(trace, "set_completed") = Len(call.reported) + 1
        /\ LastEvArg(trace, "set_completed") = LastEvArg(trace, "set_total")
        /\ FirstEv(trace, "set_total") < FirstEv(trace, "set_completed")

\* the format reported 1 of 2 and succeeded on a declared total of 2: the host
\* saw 1 and then the total
C21_Witness ==
    /\ UpdateDone
    /\ call.write = "ok"
    /\ call.reported = << <<1, 2>> >>
    /\ LastEvArg(trace, "set_total") = 2
    /\ EvArgs(trace, "set_completed") = <<1, 2>>
    /\ ret.hr = S_OK

\* ------------------------------------------------------------------------
\* the completed values the host received during the write, in order
Forwarded == EvArgs(trace, "set_completed")

\* a progress report of the format was just forwarded
Reported == pc = "update_write" /\ ret.op = "progress_fn"

\* C22: for every (completed, total) pair the format reports, the value
\* forwarded to the host's set_completed does not exceed the declared total
\* (also when completed > total), is 0 when the reported total is 0, and is 0
\* when nothing is completed.
C22_ForwardedClamped ==
    Reported =>
        LET fwd == Forwarded[Len(Forwarded)] IN
        /\ Leq(fwd, call.total_size)
        /\ ret.arg[2] = <<>> => fwd = <<>>
        /\ ret.arg[1] = <<>> => fwd = <<>>

\* ------------------------------------------------------------------------
\* C23: the completed values update_items reports to the host during one call
\* (the forwarded progress and then the final completion) never decrease.
C23_Monotonic ==
    \A i, j \in 1..Len(Forwarded) : i < j => Leq(Forwarded[i], Forwarded[j])

\* ------------------------------------------------------------------------
\* C24: progress_fn returns true (continue) for every report, whatever status
\* the host's set_completed returned, and it has forwarded the report; the
\* write phase is never told to stop.
C24_AlwaysContinue ==
    /\ Reported => ret.val = TRUE /\ Forwarded # <<>>
    /\ pc = "update_write" => call.go

\* the host answered E_ABORT to a forwarded report, the format reported again and
\* was told to continue, after both reports were forwarded
C24_Witness ==
    /\ Reported
    /\ call.cancelled
    /\ ret.hr = E_ABORT
    /\ ret.val = TRUE
    /\ Len(Forwarded) = 2

\* ------------------------------------------------------------------------
\* the strings the variant code allocated itself and has not released
SelfLive == {a \in BstrAddrs : heap[a].live /\ heap[a].owner = "self"}

\* the last encode or clear applied to the variant was `name`
LastEncode(name) == trace # <<>> /\ trace[1][1] = name

\* C25: after any sequence of encode operations (u32, u64, boolean, string,
\* filetime, blob, GUID, empty) and clears on one variant, at most one string the
\* variant code allocated is live, and it is the one the variant references:
\* every encode released what the variant held before.
C25_NoLeak ==
    /\ Cardinality(SelfLive) <= 1
    /\ \A a \in SelfLive : pv.vt = VT_BSTR /\ pv.data = BitsOf(a)

\* ------------------------------------------------------------------------
\* C26: a decode returns a value only for its tag: get_u32 for VT_UI4 (the low
\* 32 digits of the payload), get_bool for VT_BOOL, get_bstr for VT_BSTR with a
\* non-null payload, get_u64 for VT_UI8 (the payload) and for VT_UI4 (its low
\* 32 digits); for every other tag the result is None.
C26_DecodeByTag ==
    /\ ret.op = "get_u32" =>
          ret.val = IF pv.vt = VT_UI4 THEN Some(LowBits(pv.data, U32_BITS)) ELSE None
    /\ ret.op = "get_bool" => (ret.val.some <=> pv.vt = VT_BOOL)
    /\ ret.op = "get_bstr" => (ret.val.some <=> (pv.vt = VT_BSTR /\ pv.data # <<>>))
    /\ ret.op = "get_u64" =>
          ret.val = IF pv.vt = VT_UI8 THEN Some(pv.data)
                    ELSE IF pv.vt = VT_UI4 THEN Some(LowBits(pv.data, U32_BITS))
                    ELSE None

\* a variant of the host tagged VT_UI4 with payload 2^32 + 1 decodes to 1 as u64
C26_Witness ==
    /\ ret.op = "get_u64"
    /\ pv = [vt |-> VT_UI4, data |-> Add(Pow2(U32_BITS), BitsOf(1))]
    /\ ret.val = Some(BitsOf(1))

\* ------------------------------------------------------------------------
\* C27: get_u64 after set_u64(v) returns v, for 0, for 2^64 - 1 and for the
\* values between, whatever the variant held before the encode.
C27_U64RoundTrip ==
    (ret.op = "get_u64" /\ LastEncode("set_u64")) => ret.val = Some(trace[1][2])

\* 2^64 - 1 was encoded over a string of the host, which was released, and read
\* back
C27_Witness ==
    /\ ret.op = "get_u64"
    /\ trace = <<Ev("set_u64", Ones(U64_BITS))>>
    /\ ret.val = Some(Ones(U64_BITS))
    /\ heap[1].owner = "host"
    /\ ~heap[1].live

\* ------------------------------------------------------------------------
\* 116,444,736,000,000,000: the FILETIME of the Unix epoch
EpochFiletime == Mul(BitsOf(116444736), BitsOf(1000000000))

\* C28: the FILETIME of a time at or after the Unix epoch is
\* 116444736000000000 plus the whole 100 ns intervals since the epoch (that
\* constant itself for the epoch); the FILETIME of a time before the epoch is 0.
C28_Filetime ==
    LastEncode("set_filetime") =>
        LET time == trace[1][2]
            since == Sub(pv.data, EpochFiletime) IN
        IF time.after
        THEN /\ Leq(EpochFiletime, pv.data)
             /\ Leq(Mul(since, BitsOf(100)), time.nanos)
             /\ Less(time.nanos, Mul(Add(since, BitsOf(1)), BitsOf(100)))
             /\ time.nanos = <<>> => pv.data = EpochFiletime
        ELSE pv.data = <<>>

\* one second before the epoch converts to 0
C28_Witness ==
    /\ trace = <<Ev("set_filetime", [after |-> FALSE, nanos |-> BitsOf(1000000000)])>>
    /\ pv = [vt |-> VT_FILETIME, data |-> <<>>]

\* ------------------------------------------------------------------------
\* C29: set_bool stores 0xFFFF for true and 0 for false under VT_BOOL; get_bool
\* on a VT_BOOL variant is true for every non-zero payload and false for 0; so
\* get_bool after set_bool(b) returns b.
C29_Bool ==
    /\ LastEncode("set_bool") =>
          /\ pv.vt = VT_BOOL
          /\ pv.data = IF trace[1][2] THEN Ones(16) ELSE <<>>
    /\ (ret.op = "get_bool" /\ pv.vt = VT_BOOL) => ret.val = Some(pv.data # <<>>)
    /\ (ret.op = "get_bool" /\ LastEncode("set_bool")) => ret.val = Some(trace[1][2])

\* true was encoded and read back
C29_Witness ==
    /\ ret.op = "get_bool"
    /\ trace = <<Ev("set_bool", TRUE)>>
    /\ pv = [vt |-> VT_BOOL, data |-> Ones(16)]
    /\ ret.val = Some(TRUE)

\* ------------------------------------------------------------------------
\* C30: InStreamReader::new on a null handle fails without a call; otherwise
\* it seeks to the end and, when that succeeded, back to the start, in this
\* order and nothing else; it succeeds exactly when the handle is not null and
\* both seeks succeeded, after exactly these two seeks; the reader's size is
\* then the position the seek to the end returned and the stream is at offset 0.
C30_ReaderConstruction ==
    call.op = "reader_done" =>
        LET seek_end == <<"seek_end", call.handle>>
            seek_set == <<"seek_set", call.handle>>
            built == ret.hr = S_OK IN
        /\ built <=> (call.handle # NULL /\ call.answers[1] /\ call.answers[2])
        /\ trace = IF call.handle = NULL THEN <<>>
                   ELSE IF ~call.answers[1] THEN <<seek_end>>
                   ELSE <<seek_end, seek_set>>
        /\ built => /\ trace = <<seek_end, seek_set>>
                    /\ ret.val = call.size
                    /\ call.pos = 0

\* a stream of 2 bytes that the host left at offset 1: the reader has size 2
\* and the stream is back at 0
C30_Witness ==
    /\ call.op = "reader_done"
    /\ ret.hr = S_OK
    /\ call.size = 2
    /\ call.start = 1
    /\ call.pos = 0
    /\ ret.val = 2
    /\ Len(trace) = 2

\* ------------------------------------------------------------------------
\* C31: a write of an empty buffer returns 0 and calls nothing; a write of a
\* non-empty buffer calls the host's write once and fails with WriteZero when
\* the host answers a success status and zero bytes, fails when the host
\* answers a failure status, and otherwise returns the count the host reported.
C31_WriterWrite ==
    (call.op = "writer" /\ ret.op = "SeqOutStreamWriter_write") =>
        LET buf_len == ret.arg[1]
            hr == call.answer[1]
            written == call.answer[2] IN
        IF buf_len = 0
        THEN ret.hr = S_OK /\ ret.val = 0 /\ trace = <<>>
        ELSE /\ Len(trace) = 1 /\ trace[1][1] = "write"
             /\ (~HostFailed(hr) /\ written = 0) => (ret.hr # S_OK /\ ret.via = "WriteZero")
             /\ HostFailed(hr) => (ret.hr # S_OK /\ ret.via # "WriteZero")
             /\ (~HostFailed(hr) /\ written # 0) => (ret.hr = S_OK /\ ret.val = written)

\* the host answers S_FALSE and zero bytes to a write of 2 bytes
C31_Witness ==
    /\ call.op = "writer"
    /\ ret.op = "SeqOutStreamWriter_write"
    /\ ret.arg[1] = 2
    /\ call.answer = <<S_FALSE, 0>>
    /\ ret.via = "WriteZero"

\* ------------------------------------------------------------------------
\* C32: neither query fails.  The decryption query answers no password when
\* the host's status is a failure and otherwise a string, the supplied one (the
\* empty string for a null pointer).  The encryption query answers no password
\* when the host's status is a failure or the password is not defined, and
\* otherwise a string, which may be empty; no password and the empty string are
\* different answers.
PlainText(password) ==
    /\ password # NullBstr
    /\ \A i \in 1..Len(password) : password[i] < HIGH_SURROGATE_MIN

CallbackOf(r) ==
    IF r.op = "extract" THEN r.arg[4] ELSE r.arg[2]

IndexOfEv(t, name) == CHOOSE k \in 1..Len(t) : t[k][1] = name

C33_CapabilityReleased ==
    (/\ ret.op \in {"open", "extract", "update_items"}
     /\ ret.hr \notin {"running", NO_HR}) =>
        LET queries == Len(SelectSeq(trace, LAMBDA e : e[1] = "cb_query_interface"))
            releases == Len(SelectSeq(trace, LAMBDA e : e[1] = "pw_release"))
            obtained == queries = 1 /\ CallbackOf(ret) = "crypto" IN
        /\ queries <= 1
        /\ releases = (IF obtained THEN 1 ELSE 0)
        /\ obtained => IndexOfEv(trace, "cb_query_interface") < IndexOfEv(trace, "pw_release")
        /\ pw_refs = 0

\* extract aborted on a failed set_operation_result after it had obtained the
\* capability, and released it
C33_Witness ==
    /\ ret.op = "extract"
    /\ ret.hr = E_ABORT
    /\ CallbackOf(ret) = "crypto"
    /\ Len(SelectSeq(trace, LAMBDA e : e[1] = "pw_release")) = 1
    /\ pw_refs = 0

\* ------------------------------------------------------------------------
\* C34: on a format registered without write support every update_items call
\* returns E_NOTIMPL, makes no call on the callback or on a stream, and leaves
\* the open flag, the attached stream, the reference count and the rest of the
\* object as they were.
C34_StubDoesNothing ==
    [][ret'.op = "update_items" =>
          /\ ret'.hr = E_NOTIMPL
          /\ trace' = <<>>
          /\ UNCHANGED <<is_open, in_stream, ref_count, archive_size, inner, obj, held,
                         stream_refs, pw_refs, leaked, dealloc_count>>
      ]_<<ret.op, ret.hr, trace, is_open, in_stream, ref_count, archive_size, inner, obj,
          held, stream_refs, pw_refs, leaked, dealloc_count>>

\* the call was made with a stream and a callback on an open object
C34_Witness ==
    /\ ret.op = "update_items"
    /\ ret.hr = E_NOTIMPL
    /\ ret.arg[1] # NULL
    /\ ret.arg[2] = "crypto"
    /\ Len(ret.arg[3]) > 0
    /\ is_open
    /\ in_stream # NULL
    /\ supports_write

\* ------------------------------------------------------------------------
\* C35: no handler allocated by create_object is left allocated without the
\* host holding a pointer to it; after a create_object that returned a failure
\* status no allocation of that call exists.
C35_NoOrphanHandler ==
    /\ leaked = 0
    /\ (ret.op = "create_object" /\ ret.hr # S_OK) => (obj # "alive" /\ leaked = 0)

\* ------------------------------------------------------------------------
\* C36: between calls, the open flag of a live object is true exactly when the
\* object holds an attached input stream.
C36_OpenIffStream ==
    (obj = "alive" /\ pc = "idle") => (is_open <=> in_stream # NULL)

\* ------------------------------------------------------------------------
\* C37: between calls, a live object that is not open has a cached archive size
\* of 0, and PhySize read from it, when the format supplies no physical size,
\* is 0.
C37_ClosedSizeZero ==
    (obj = "alive" /\ pc = "idle" /\ ~is_open) =>
        /\ archive_size = 0
        /\ (/\ ret.op = "get_archive_property"
            /\ ret.hr = S_OK
            /\ ret.arg = <<ArchivePropId_PhySize, FALSE>>) => (ret.vt = VT_UI8 /\ ret.val = 0)

\* ------------------------------------------------------------------------
\* C38: an open that returns success add-refs the supplied stream exactly once
\* and records it with its size and the open flag.  An open that does not
\* return success takes no reference on any stream; for a null stream it makes
\* no call and leaves the object as it was, an attached stream included; after
\* a failed reader construction or a failed format open the object has no
\* attached stream.
AddRefs(t) == SelectSeq(t, LAMBDA e : e[1] = "stream_add_ref")

C38_OpenStep ==
    ret'.op = "open" =>
        LET stream == ret'.arg[1] IN
        IF ret'.hr = S_OK
        THEN /\ AddRefs(trace') = <<Ev("stream_add_ref", stream)>>
             /\ in_stream' = stream
             /\ archive_size' = StreamSize(stream)
             /\ is_open'
        ELSE /\ AddRefs(trace') = <<>>
             /\ IF stream = NULL
                THEN /\ trace' = <<>>
                     /\ UNCHANGED <<in_stream, archive_size, is_open, inner, stream_refs>>
                ELSE in_stream' = NULL

C38_OpenAttach ==
    [][C38_OpenStep]_<<ret.op, ret.hr, trace, in_stream, archive_size, is_open, inner,
                       stream_refs>>

\* open was refused for a null stream on an object that has a stream attached
C38_Witness ==
    /\ ret.op = "open"
    /\ ret.hr = E_POINTER
    /\ ret.arg[1] = NULL
    /\ in_stream # NULL
    /\ is_open

\* C38 as stated: after every open that did not return success the object has
\* no attached stream
C38_FailedOpenDetached ==
    (ret.op = "open" /\ ret.hr # S_OK) =>
        (AddRefs(trace) = <<>> /\ in_stream = NULL)

\* ------------------------------------------------------------------------
\* C39: update_items with a null output stream or a null callback returns
\* E_INVALIDARG, calls nothing (neither the format's close nor a callback nor a
\* stream) and leaves the items of the format, the open flag, the cached size,
\* the attached stream and every reference count as they were.
C39_NullArgStep ==
    (ret'.op = "update_items" /\ (ret'.arg[1] = NULL \/ ret'.arg[2] = "null")) =>
        /\ ret'.hr = E_INVALIDARG
        /\ trace' = <<>>
        /\ UNCHANGED <<inner, is_open, archive_size, in_stream, stream_refs, ref_count, obj,
                       held, pw_refs, pc>>

C39_NullArgsNoEffect ==
    [][C39_NullArgStep]_<<ret.op, ret.hr, trace, inner, is_open, archive_size, in_stream,
                          stream_refs, ref_count, obj, held, pw_refs, pc>>

\* the call with a null callback was refused on an open object, which still
\* holds its stream, its size and its items
C39_Witness ==
    /\ ret.op = "update_items"
    /\ ret.hr = E_INVALIDARG
    /\ ret.arg[1] # NULL
    /\ ret.arg[2] = "null"
    /\ is_open
    /\ in_stream # NULL
    /\ archive_size > 0
    /\ Len(inner) > 0
    /\ stream_refs[in_stream] = 1

\* ------------------------------------------------------------------------
\* C40: a failure status of set_operation_result for an item ends extract with
\* that status: no completed value is reported for the item and no later index
\* is processed.  The statuses of set_total, prepare_operation and
\* set_completed have no effect: when every get_stream and every
\* set_operation_result was accepted, every existing index is processed, a
\* completed value is reported for each, and extract returns S_OK.
C40_StatusHandling ==
    ExtractDone =>
        /\ \A k \in 1..Len(call.answers) :
              (~HostFailed(call.answers[k].gs_hr) /\ HostFailed(call.answers[k].res_hr)) =>
                  /\ k = Len(call.answers)
                  /\ ret.hr = call.answers[k].res_hr
                  /\ CountEv(trace, "get_stream") = k
                  /\ CountEv(trace, "set_operation_result") = k
                  /\ CountEv(trace, "set_completed") = k - 1
        /\ (\A k \in 1..Len(call.answers) :
               ~HostFailed(call.answers[k].gs_hr) /\ ~HostFailed(call.answers[k].res_hr)) =>
                  /\ ret.hr = S_OK
                  /\ [k \in 1..Len(call.answers) |-> call.answers[k].index] = ExistingIndices
                  /\ CountEv(trace, "set_total") = 1
                  /\ CountEv(trace, "prepare_operation") = Len(call.answers)
                  /\ CountEv(trace, "set_operation_result") = Len(call.answers)
                  /\ CountEv(trace, "set_completed") = Len(call.answers)

\* the host failed set_total, then prepare_operation and set_completed of the
\* first item, which changed nothing, and then set_operation_result of the
\* second item, which ended the call
C40_Witness ==
    /\ ExtractDone
    /\ HostFailed(call.total_hr)
    /\ Len(call.answers) = 2
    /\ HostFailed(call.answers[1].prep_hr)
    /\ HostFailed(call.answers[1].comp_hr)
    /\ ~HostFailed(call.answers[1].res_hr)
    /\ ~HostFailed(call.answers[2].gs_hr)
    /\ call.answers[2].res_hr = E_ABORT
    /\ ret.hr = E_ABORT
    /\ CountEv(trace, "set_completed") = 1

====
